---- MODULE Spec2Model ----
(***************************************************************************)
(* The command-line parser of greet.hpp as a state machine: greet::meta's  *)
(* registry construction, the main token loop of greet::greet, the short   *)
(* cluster scan, parse_helper, the help/version check and the final        *)
(* required-option validation.                                             *)
(*                                                                         *)
(* A C string is a sequence of one-character strings; the terminating      *)
(* '\0' is the value NUL, read at the position just past the last          *)
(* character.  argv is the whole argument vector (program name first);     *)
(* argi counts the calls of remove_one_arg, so the code's argv[0] is       *)
(* argv[argi + 1] and the code's argc is Len(argv) - argi; off is how far  *)
(* the code has advanced the pointer stored in argv[0].                    *)
(***************************************************************************)
EXTENDS Integers, Sequences, FiniteSets, TLC

VARIABLES
    decl,       \* the option wrappers genmeta() hands to meta::meta, in order
    has_sink,   \* whether genmeta() passed a greet::ignored member
    argv,       \* the argument vector, argv[1] the program name
    pc,         \* position in greet::greet
    argi,       \* number of remove_one_arg calls so far
    off,        \* advance of the char pointer argv[0] within its token
    argtype_,   \* argtype computed at the head of the current iteration
    flag,       \* the flag string built for the pending parse_helper call
    newarg,     \* the newarg argument of the pending parse_helper call
    opts,       \* meta::_opts
    sorted_by_flag,  \* meta::_sorted_by_flag
    required_opts,   \* meta::_required_opts
    field,      \* the bound members: field[i] is what opts[i]._optref refers to
    set_flag,   \* opt_base::_set_flag of opts[i]
    ignored,    \* the greet::ignored member (when has_sink)
    outcome,    \* how the call ended
    calls       \* history: one record per parse_helper call

vars ==
    <<decl, has_sink, argv, pc, argi, off, argtype_, flag, newarg, opts,
      sorted_by_flag, required_opts, field, set_flag, ignored, outcome, calls>>

-----------------------------------------------------------------------------
(* Characters and strings *)

NUL == "NUL"

\* ASCII codes of the characters the model's registries use as short flags.
Ord(c) ==
    CASE c = " " -> 32
      [] c = "-" -> 45
      [] c = "=" -> 61
      [] c = "V" -> 86
      [] c = "a" -> 97
      [] c = "b" -> 98
      [] c = "c" -> 99
      [] c = "f" -> 102
      [] c = "g" -> 103
      [] c = "h" -> 104
      [] c = "i" -> 105
      [] c = "n" -> 110
      [] c = "p" -> 112
      [] c = "t" -> 116
      [] c = "v" -> 118
      [] OTHER -> 120

\* str[0] of the C string that starts k characters into token s.
\* One past the terminator is outside the string: the caller decides.
CharAt(s, k) == IF k < Len(s) THEN s[k + 1] ELSE NUL

\* The C string that starts k characters into token s.
CStr(s, k) == IF k >= Len(s) THEN <<>> ELSE SubSeq(s, k + 1, Len(s))

starts_with(s, p) == Len(s) >= Len(p) /\ SubSeq(s, 1, Len(p)) = p

\* std::strchr(s, c) as a 0-based offset, -1 when absent.
RECURSIVE strchr_from(_, _, _)
strchr_from(s, c, k) ==
    IF k >= Len(s) THEN -1
    ELSE IF s[k + 1] = c THEN k
    ELSE strchr_from(s, c, k + 1)

strchr(s, c) == strchr_from(s, c, 0)

-----------------------------------------------------------------------------
(* Token classification *)

ARGUMENT == "ARGUMENT"
ENDARG == "ENDARG"
SHORT == "SHORT"
LONG == "LONG"

\* A classification that takes the lone hyphen for a bare word.
argtype_hyphen_bare(arg) ==
    IF arg = <<"-", "-">> THEN ENDARG
    ELSE IF starts_with(arg, <<"-", "-">>) THEN LONG
    ELSE IF starts_with(arg, <<"-">>) /\ Len(arg) >= 2 THEN SHORT
    ELSE ARGUMENT

argtype(arg) ==
    IF arg = <<"-", "-">> THEN ENDARG
    ELSE IF starts_with(arg, <<"-", "-">>) THEN LONG
    ELSE IF starts_with(arg, <<"-">>) THEN SHORT
    ELSE ARGUMENT

-----------------------------------------------------------------------------
(* String-to-value conversion: string_converter<OptT>::from_str *)

OK == "ok"
invalid_argument == "invalid_argument"
result_out_of_range == "result_out_of_range"

\* The element types the model's options are bound to.  "u8" is an unsigned
\* 8-bit integer: the integer converter is a template over every integral
\* type, and 8 bits put the overflow case within reach of short texts.
UINT8_MAX == 2^8 - 1

\* Each operator below takes the values it uses more than once as parameters
\* and is applied to them once.

Digits ==
    <<"0", "1", "2", "3", "4", "5", "6", "7", "8", "9",
      "a", "b", "c", "d", "e", "f">>
UpperDigits == <<"A", "B", "C", "D", "E", "F">>

\* The value of c as a digit; 99, more than any base, when it is none.
DigitVal(c) ==
    IF \E k \in 1..16 : Digits[k] = c
    THEN (CHOOSE k \in 1..16 : Digits[k] = c) - 1
    ELSE IF \E k \in 1..6 : UpperDigits[k] = c
    THEN (CHOOSE k \in 1..6 : UpperDigits[k] = c) + 9
    ELSE 99

\* Number of leading characters of s that are digits of the base.
DigitRun(s, base) ==
    CHOOSE n \in 0..Len(s) :
        /\ \A k \in 1..n : DigitVal(s[k]) < base
        /\ n = Len(s) \/ DigitVal(s[n + 1]) >= base

\* The value of the first n characters of s read as digits of the base.
DigitsValue(s, base, n) ==
    LET val[k \in 0..n] ==
            IF k = 0 THEN 0 ELSE val[k - 1] * base + DigitVal(s[k])
    IN  val[n]

from_chars_result(n, v) ==
    IF n = 0 THEN [ec |-> invalid_argument, ptr |-> 0, v |-> 0]
    ELSE IF v > UINT8_MAX THEN [ec |-> result_out_of_range, ptr |-> n, v |-> 0]
    ELSE [ec |-> OK, ptr |-> n, v |-> v]

from_chars_run(s, base, n) == from_chars_result(n, DigitsValue(s, base, n))

\* std::from_chars(first, last, v, base) for an unsigned type: no sign, no
\* prefix; ptr is the number of characters consumed.
from_chars(s, base) == from_chars_run(s, base, DigitRun(s, base))

\* The end of from_str: result is what from_chars gave for the text after
\* the first skip characters of str.
integer_expected(str, skip, result) ==
    IF result.ec = OK
    THEN IF skip + result.ptr = Len(str)
         THEN [ec |-> OK, v |-> result.v]
         ELSE [ec |-> invalid_argument, v |-> 0]
    ELSE [ec |-> result.ec, v |-> 0]

\* A conversion that takes the octal branch only when a character follows
\* the leading 0.
integer_from_str_lone_zero(str) ==
    IF CharAt(str, 0) = "0" /\ CharAt(str, 1) = "x"
    THEN integer_expected(str, 2, from_chars(CStr(str, 2), 16))
    ELSE IF CharAt(str, 0) = "0" /\ Len(str) >= 2
    THEN integer_expected(str, 1, from_chars(CStr(str, 1), 8))
    ELSE integer_expected(str, 0, from_chars(str, 10))

integer_from_str(str) ==
    IF CharAt(str, 0) = "0"
    THEN IF CharAt(str, 1) = "x"
         THEN integer_expected(str, 2, from_chars(CStr(str, 2), 16))
         ELSE integer_expected(str, 1, from_chars(CStr(str, 1), 8))
    ELSE integer_expected(str, 0, from_chars(str, 10))

char_from_str(str) ==
    IF Len(str) # 1 THEN [ec |-> invalid_argument, v |-> NUL]
    ELSE [ec |-> OK, v |-> str[1]]

string_from_str(str) == [ec |-> OK, v |-> str]

from_str(conv, str) ==
    CASE conv = "u8" -> integer_from_str(str)
      [] conv = "char" -> char_from_str(str)
      [] OTHER -> string_from_str(str)

-----------------------------------------------------------------------------
(* Option descriptors: opt_base, opt_wrapper<OptT>, anyopt *)

NORMAL == "NORMAL"
BOOLEAN_ == "BOOLEAN"
COUNTER == "COUNTER"
VECTOR == "VECTOR"

\* A wrapper as greet::opt(member).shrt(..).lng(..)... leaves it: init is the
\* member's value when parsing starts (value-initialised, or what def() wrote).
Wrapper(shrt, lng, opttype, conv, required, allow_hyphen, init) ==
    [shrt |-> shrt, lng |-> lng, opttype |-> opttype, conv |-> conv,
     required |-> required, allow_hyphen |-> allow_hyphen, init |-> init]

\* opt_base::need_argument and its two overrides.
need_argument(o) == o.opttype \in {NORMAL, VECTOR}

\* A registry that forgets which options are required.
required_never(o) == FALSE

\* opt_base::get_required, overridden by opt_wrapper<OptT> only.
required(o) == o.opttype = NORMAL /\ o.required

\* A registry that forgets which options take a value with a hyphen.
allow_hyphen_never(o) == FALSE

\* opt_base::get_allow_hyphen, overridden by the two value-taking wrappers.
allow_hyphen(o) == o.opttype \in {NORMAL, VECTOR} /\ o.allow_hyphen

\* What set returns and leaves behind: _set_flag is raised by the plain and
\* the bool wrapper only.
stored(expt, fld, sf, newfld, newsf) ==
    IF expt.ec = OK
    THEN [ec |-> OK, fld |-> newfld, sf |-> newsf]
    ELSE [ec |-> expt.ec, fld |-> fld, sf |-> sf]

set_normal_expt(expt, fld, sf) == stored(expt, fld, sf, expt.v, TRUE)

\* opt_wrapper<OptT>::set
set_normal(o, fld, sf, value) == set_normal_expt(from_str(o.conv, value), fld, sf)

\* A flag that is stored without being marked as set.
set_bool_unmarked(o, fld, sf, value) == [ec |-> OK, fld |-> TRUE, sf |-> sf]

\* opt_wrapper<bool>::set
set_bool(o, fld, sf, value) == [ec |-> OK, fld |-> TRUE, sf |-> TRUE]

\* A counter that is switched on rather than incremented.
set_counter_once(o, fld, sf, value) == [ec |-> OK, fld |-> 1, sf |-> sf]

\* opt_wrapper<counter>::set
set_counter(o, fld, sf, value) == [ec |-> OK, fld |-> fld + 1, sf |-> sf]

\* A vector that keeps one copy of each value.
set_vector_unique(expt, fld, sf) ==
    stored(expt, fld, sf,
           IF \E k \in DOMAIN fld : fld[k] = expt.v THEN fld
           ELSE Append(fld, expt.v), sf)

set_vector_expt(expt, fld, sf) == stored(expt, fld, sf, Append(fld, expt.v), sf)

\* opt_wrapper<std::vector<OptT>>::set
set_vector(o, fld, sf, value) == set_vector_expt(from_str(o.conv, value), fld, sf)

\* anyopt::set: virtual dispatch on the wrapped type.
anyopt_set(o, fld, sf, value) ==
    CASE o.opttype = NORMAL -> set_normal(o, fld, sf, value)
      [] o.opttype = BOOLEAN_ -> set_bool(o, fld, sf, value)
      [] o.opttype = COUNTER -> set_counter(o, fld, sf, value)
      [] OTHER -> set_vector(o, fld, sf, value)

-----------------------------------------------------------------------------
(* The registry: meta::meta *)

help_opt ==
    Wrapper("h", <<"h", "e", "l", "p">>, BOOLEAN_, "bool", FALSE, FALSE, FALSE)
version_opt ==
    Wrapper("V", <<"v", "e", "r", "s", "i", "o", "n">>, BOOLEAN_, "bool",
            FALSE, FALSE, FALSE)

\* A registry that holds help and version before the declared options.
unpack_opts_builtins_first(d) == <<help_opt, version_opt>> \o d

\* _unpack_opts, then the two emplace_back calls: the user's options in
\* declaration order, then help, then version.
unpack_opts(d) == d \o <<help_opt, version_opt>>

short_key(o) == <<"-", o.shrt>>
long_key(o) == <<"-", "-">> \o o.lng

\* A registry in which a flag that is claimed twice goes to the later option.
RECURSIVE meta_loop_last_wins(_, _, _, _)
meta_loop_last_wins(os, i, table, req) ==
    IF i > Len(os)
    THEN [err |-> "none", flag |-> <<>>, at |-> 0, table |-> table, req |-> req]
    ELSE meta_loop_last_wins(
             os, i + 1,
             (IF os[i].lng # <<>> THEN long_key(os[i]) :> i ELSE <<>>)
                 @@ (IF os[i].shrt # NUL THEN short_key(os[i]) :> i ELSE <<>>)
                 @@ table,
             IF required(os[i]) THEN Append(req, i) ELSE req)

\* The for loop of the constructor from position i on; table is
\* _sorted_by_flag (flag -> position in _opts), req is _required_opts.
RECURSIVE meta_loop(_, _, _, _)
meta_loop(os, i, table, req) ==
    IF i > Len(os)
    THEN [err |-> "none", flag |-> <<>>, at |-> 0, table |-> table, req |-> req]
    ELSE
    LET o == os[i]
        fail(msg, flg) ==
            [err |-> msg, flag |-> flg, at |-> i, table |-> table, req |-> req]
        t1 == IF o.shrt # NUL THEN table @@ (short_key(o) :> i) ELSE table
        t2 == IF o.lng # <<>> THEN t1 @@ (long_key(o) :> i) ELSE t1
    IN  IF o.shrt = NUL /\ o.lng = <<>> THEN fail("neither_flag", <<>>)
        ELSE IF o.shrt # NUL /\ (Ord(o.shrt) < 33 \/ Ord(o.shrt) > 126)
            THEN fail("not_printable", <<>>)
        ELSE IF o.shrt # NUL /\ o.shrt = "-"
            THEN fail("short_is_hyphen", <<>>)
        ELSE IF o.shrt # NUL /\ short_key(o) \in DOMAIN table
            THEN fail("already_used", short_key(o))
        ELSE IF o.lng # <<>> /\ long_key(o) \in DOMAIN t1
            THEN fail("already_used", long_key(o))
        ELSE meta_loop(os, i + 1, t2, IF required(o) THEN Append(req, i) ELSE req)

meta(d) == meta_loop(unpack_opts(d), 1, [k \in {} |-> 0], <<>>)

\* meta::query: the position of the descriptor, 0 for std::nullopt.
query(table, flg) == IF flg \in DOMAIN table THEN table[flg] ELSE 0


-----------------------------------------------------------------------------
(* greet::greet *)

NoOutcome ==
    [kind |-> "running", code |-> -1, flag |-> <<>>, value |-> <<>>,
     opt |-> 0, missing |-> <<>>]

\* The print_helper functions that end the process, and the two exits of the
\* help/version check; code is the argument of std::exit.
internal_error(msg, flg) ==
    [NoOutcome EXCEPT !.kind = msg, !.code = 1, !.flag = flg]
unexpected_argument(arg) ==
    [NoOutcome EXCEPT !.kind = "unexpected_argument", !.code = 2, !.flag = arg]
missing_value(flg, i) ==
    [NoOutcome EXCEPT !.kind = "missing_value", !.code = 2, !.flag = flg,
                      !.opt = i]
unexpected_value(flg, value) ==
    [NoOutcome EXCEPT !.kind = "unexpected_value", !.code = 2, !.flag = flg,
                      !.value = value]
invalid_value(flg, value, i) ==
    [NoOutcome EXCEPT !.kind = "invalid_value", !.code = 2, !.flag = flg,
                      !.value = value, !.opt = i]
used_mutiple(flg, i) ==
    [NoOutcome EXCEPT !.kind = "used_mutiple", !.code = 2, !.flag = flg,
                      !.opt = i]
missing_options(missing) ==
    [NoOutcome EXCEPT !.kind = "missing_options", !.code = 2,
                      !.missing = missing]
print_help == [NoOutcome EXCEPT !.kind = "help", !.code = 0]
print_version == [NoOutcome EXCEPT !.kind = "version", !.code = 0]
returned == [NoOutcome EXCEPT !.kind = "returned", !.code = 0]

argc_(ai) == Len(argv) - ai

\* What a parse_helper call leaves behind.  exit is the outcome of a
\* [[noreturn]] call ("running" when the lambda returns), ret the returned
\* bool; ai and of are argv and argv[0], fld and sf the members and the set
\* flags; opt is the descriptor the flag resolved to, value the text given
\* to set.
Left(exit, ret, ai, of, fld, sf, opt, value) ==
    [exit |-> exit, ret |-> ret, ai |-> ai, of |-> of, fld |-> fld,
     sf |-> sf, opt |-> opt, value |-> value]

Exits(exit, ai, of, opt, value) ==
    Left(exit, FALSE, ai, of, field, set_flag, opt, value)

\* A value that is stored without its token being consumed.
set_value_stays(flg, ai, of, i, value, r) ==
    IF r.ec # OK THEN Exits(invalid_value(flg, value, i), ai, of, i, value)
    ELSE Left(NoOutcome, FALSE, ai, of, [field EXCEPT ![i] = r.fld],
              [set_flag EXCEPT ![i] = r.sf], i, value)

\* A value whose token is removed twice.
set_value_removes_two(flg, ai, of, i, value, r) ==
    IF r.ec # OK THEN Exits(invalid_value(flg, value, i), ai, of, i, value)
    ELSE Left(NoOutcome, TRUE, ai + 2, 0, [field EXCEPT ![i] = r.fld],
              [set_flag EXCEPT ![i] = r.sf], i, value)

\* std::errc ec = optref.get().set(argv[0]); ... return true;
set_value(flg, ai, of, i, value, r) ==
    IF r.ec # OK THEN Exits(invalid_value(flg, value, i), ai, of, i, value)
    ELSE Left(NoOutcome, TRUE, ai + 1, 0, [field EXCEPT ![i] = r.fld],
              [set_flag EXCEPT ![i] = r.sf], i, value)

\* A value that is converted before the option is asked whether it is set.
use_value_converts_first(flg, ai, of, i) ==
    IF from_str(opts[i].conv, CStr(argv[ai + 1], of)).ec # OK
    THEN Exits(invalid_value(flg, CStr(argv[ai + 1], of), i), ai, of, i,
               CStr(argv[ai + 1], of))
    ELSE IF set_flag[i] THEN Exits(used_mutiple(flg, i), ai, of, i, <<>>)
    ELSE set_value(flg, ai, of, i, CStr(argv[ai + 1], of),
                   anyopt_set(opts[i], field[i], set_flag[i],
                              CStr(argv[ai + 1], of)))

\* The already_set check and the set call of the branch that needs a value;
\* of is argv[0] after the "=" was skipped.
use_value(flg, ai, of, i) ==
    IF set_flag[i] THEN Exits(used_mutiple(flg, i), ai, of, i, <<>>)
    ELSE set_value(flg, ai, of, i, CStr(argv[ai + 1], of),
                   anyopt_set(opts[i], field[i], set_flag[i],
                              CStr(argv[ai + 1], of)))

\* A hyphen check that is applied to attached values too.
with_argument_checks_attached(flg, na, ai, of, i) ==
    IF argc_(ai) = 0 THEN Exits(missing_value(flg, i), ai, of, i, <<>>)
    ELSE IF CharAt(argv[ai + 1], of) = "-" /\ ~allow_hyphen(opts[i])
    THEN Exits(missing_value(flg, i), ai, of, i, <<>>)
    ELSE IF ~na /\ CharAt(argv[ai + 1], of) = "="
    THEN use_value(flg, ai, of + 1, i)
    ELSE use_value(flg, ai, of, i)

\* A next token with a hyphen that is refused whatever the option allows.
with_argument_rejects_hyphen(flg, na, ai, of, i) ==
    IF argc_(ai) = 0 THEN Exits(missing_value(flg, i), ai, of, i, <<>>)
    ELSE IF na /\ CharAt(argv[ai + 1], of) = "-"
    THEN Exits(missing_value(flg, i), ai, of, i, <<>>)
    ELSE IF ~na /\ CharAt(argv[ai + 1], of) = "="
    THEN use_value(flg, ai, of + 1, i)
    ELSE use_value(flg, ai, of, i)

\* A value that keeps the "=" it was attached with.
with_argument_keeps_equals(flg, na, ai, of, i) ==
    IF argc_(ai) = 0 THEN Exits(missing_value(flg, i), ai, of, i, <<>>)
    ELSE IF na /\ CharAt(argv[ai + 1], of) = "-" /\ ~allow_hyphen(opts[i])
    THEN Exits(missing_value(flg, i), ai, of, i, <<>>)
    ELSE use_value(flg, ai, of, i)

\* A terminator that is no value even for an option that allows a hyphen.
with_argument_keeps_terminator(flg, na, ai, of, i) ==
    IF argc_(ai) = 0 THEN Exits(missing_value(flg, i), ai, of, i, <<>>)
    ELSE IF na /\ CharAt(argv[ai + 1], of) = "-"
            /\ (~allow_hyphen(opts[i]) \/ argv[ai + 1] = <<"-", "-">>)
    THEN Exits(missing_value(flg, i), ai, of, i, <<>>)
    ELSE IF ~na /\ CharAt(argv[ai + 1], of) = "="
    THEN use_value(flg, ai, of + 1, i)
    ELSE use_value(flg, ai, of, i)

\* An attached "=" with nothing behind it that counts as no value.
with_argument_empty_is_missing(flg, na, ai, of, i) ==
    IF argc_(ai) = 0 THEN Exits(missing_value(flg, i), ai, of, i, <<>>)
    ELSE IF na /\ CharAt(argv[ai + 1], of) = "-" /\ ~allow_hyphen(opts[i])
    THEN Exits(missing_value(flg, i), ai, of, i, <<>>)
    ELSE IF ~na /\ CStr(argv[ai + 1], of) = <<"=">>
    THEN Exits(missing_value(flg, i), ai, of, i, <<>>)
    ELSE IF ~na /\ CharAt(argv[ai + 1], of) = "="
    THEN use_value(flg, ai, of + 1, i)
    ELSE use_value(flg, ai, of, i)

\* if (optref.get().need_argument()) { ... }
with_argument(flg, na, ai, of, i) ==
    IF argc_(ai) = 0 THEN Exits(missing_value(flg, i), ai, of, i, <<>>)
    ELSE IF na /\ CharAt(argv[ai + 1], of) = "-" /\ ~allow_hyphen(opts[i])
    THEN Exits(missing_value(flg, i), ai, of, i, <<>>)
    ELSE IF ~na /\ CharAt(argv[ai + 1], of) = "="
    THEN use_value(flg, ai, of + 1, i)
    ELSE use_value(flg, ai, of, i)

\* One already-set mark shared by every option.
set_no_value_shared(ai, of, i, r) ==
    Left(NoOutcome, FALSE, ai, of, [field EXCEPT ![i] = r.fld],
         [j \in DOMAIN set_flag |-> r.sf], i, <<>>)

set_no_value(ai, of, i, r) ==
    Left(NoOutcome, FALSE, ai, of, [field EXCEPT ![i] = r.fld],
         [set_flag EXCEPT ![i] = r.sf], i, <<>>)

\* A check for an attached value that does not ask which kind of token the
\* flag came from.
without_argument_any_equals(at, flg, na, ai, of, i) ==
    IF ~na /\ CharAt(argv[ai + 1], of) = "="
    THEN Exits(unexpected_value(flg, CStr(argv[ai + 1], of)), ai, of, i, <<>>)
    ELSE IF set_flag[i] THEN Exits(used_mutiple(flg, i), ai, of, i, <<>>)
    ELSE set_no_value(ai, of, i,
                      anyopt_set(opts[i], field[i], set_flag[i], <<>>))

\* else { ... }
without_argument(at, flg, na, ai, of, i) ==
    IF at = LONG /\ ~na /\ CharAt(argv[ai + 1], of) = "="
    THEN Exits(unexpected_value(flg, CStr(argv[ai + 1], of)), ai, of, i, <<>>)
    ELSE IF set_flag[i] THEN Exits(used_mutiple(flg, i), ai, of, i, <<>>)
    ELSE set_no_value(ai, of, i,
                      anyopt_set(opts[i], field[i], set_flag[i], <<>>))

resolved(at, flg, na, ai, of, result) ==
    IF result = 0 THEN Exits(unexpected_argument(flg), ai, of, 0, <<>>)
    ELSE IF need_argument(opts[result])
    THEN with_argument(flg, na, ai, of, result)
    ELSE without_argument(at, flg, na, ai, of, result)

\* The lambda parse_helper, called with argv advanced ai times and argv[0]
\* advanced by of; at is the argtype it captured.
parse_helper(at, flg, na, ai, of) ==
    resolved(at, flg, na, ai, of, query(sorted_by_flag, flg))

\* The history record of one parse_helper call: what it was called with
\* (flag, newarg, the argc and argv[0][0] it saw, the position in argv of
\* the token the flag was read from) and how it ended.
Call(flg, na, ai, of, r) ==
    [tok |-> IF na THEN ai ELSE ai + 1, flag |-> flg, newarg |-> na,
     argc |-> argc_(ai), of |-> of,
     head |-> IF argc_(ai) = 0 THEN NUL ELSE CharAt(argv[ai + 1], of),
     opt |-> r.opt,
     result |-> IF r.exit.kind = "running" THEN "set" ELSE r.exit.kind,
     value |-> r.value]

-----------------------------------------------------------------------------
(* Inputs: the registries and the argument vectors parsed against them *)

MaxArgs == 3
MaxUnits == 3
MaxCluster == 3

RECURSIVE Flatten(_)
Flatten(ss) == IF ss = <<>> THEN <<>> ELSE ss[1] \o Flatten(SubSeq(ss, 2, Len(ss)))

s_name == <<"n", "a", "m", "e">>
s_place == <<"p", "l", "a", "c", "e">>
s_age == <<"a", "g", "e">>
s_alpha == <<"a", "l", "p", "h", "a">>
s_beta == <<"b", "e", "t", "a">>
s_gamma == <<"g", "a", "m", "m", "a">>
s_int == <<"i", "n", "t">>
s_flag == <<"f", "l", "a", "g">>
s_count == <<"c", "o", "u", "n", "t">>
s_multi == <<"m", "u", "l", "t", "i">>
s_aaa == <<"a", "a", "a">>
s_verbose == <<"v", "e", "r", "b", "o", "s", "e">>
s_version == <<"v", "e", "r", "s", "i", "o", "n">>

Sh(cs) == <<"-">> \o cs
Lg(name) == <<"-", "-">> \o name
LgEq(name, v) == <<"-", "-">> \o name \o <<"=">> \o v

\* The example program of the README: struct Args and its genmeta().
RegExample ==
    << Wrapper("n", s_name, NORMAL, "string", TRUE, FALSE, <<>>),
       Wrapper(NUL, s_age, NORMAL, "u8", FALSE, FALSE, 18),
       Wrapper("g", <<>>, BOOLEAN_, "bool", FALSE, FALSE, FALSE),
       Wrapper("t", <<>>, COUNTER, "counter", FALSE, FALSE, 0),
       Wrapper("p", s_place, VECTOR, "string", FALSE, TRUE, <<>>) >>

\* One option of every kind, each with a short and a long flag.
RegMixed ==
    << Wrapper("a", s_alpha, NORMAL, "string", TRUE, FALSE, <<>>),
       Wrapper("i", s_int, NORMAL, "u8", FALSE, FALSE, 18),
       Wrapper("f", s_flag, BOOLEAN_, "bool", FALSE, FALSE, FALSE),
       Wrapper("c", s_count, COUNTER, "counter", FALSE, FALSE, 0),
       Wrapper("m", s_multi, VECTOR, "u8", FALSE, FALSE, <<>>) >>

\* Three required options and one that is not.
RegRequired ==
    << Wrapper("a", s_alpha, NORMAL, "string", TRUE, FALSE, <<>>),
       Wrapper("f", <<>>, BOOLEAN_, "bool", FALSE, FALSE, FALSE),
       Wrapper("b", s_beta, NORMAL, "u8", TRUE, FALSE, 0),
       Wrapper("g", s_gamma, NORMAL, "string", TRUE, FALSE, <<>>) >>

\* The rule of the README on clusters: -f and -g take no value, -a takes one.
RegCluster ==
    << Wrapper("f", <<>>, BOOLEAN_, "bool", FALSE, FALSE, FALSE),
       Wrapper("g", <<>>, BOOLEAN_, "bool", FALSE, FALSE, FALSE),
       Wrapper("a", s_aaa, NORMAL, "string", FALSE, FALSE, <<>>) >>

\* A counter with both flags, a counter with a short flag and a flag.
RegCounter ==
    << Wrapper("v", s_verbose, COUNTER, "counter", FALSE, FALSE, 0),
       Wrapper("c", <<>>, COUNTER, "counter", FALSE, FALSE, 0),
       Wrapper("f", s_flag, BOOLEAN_, "bool", FALSE, FALSE, FALSE) >>

\* A vector of integers.
RegMulti ==
    << Wrapper("p", s_place, VECTOR, "u8", FALSE, FALSE, <<>>) >>

\* The options of the acceptance test as the specification states them.
RegAcceptance ==
    << Wrapper("n", s_name, NORMAL, "string", FALSE, FALSE, <<>>),
       Wrapper("p", s_place, VECTOR, "string", FALSE, TRUE, <<>>),
       Wrapper("t", <<>>, VECTOR, "string", FALSE, TRUE, <<>>) >>

MixedTokens ==
    { Sh(<<"a">>), <<"x">>, Sh(<<"a", "x">>), LgEq(s_alpha, <<"x">>),
      Lg(s_alpha), Sh(<<"f">>), Lg(s_flag), LgEq(s_flag, <<"x">>),
      Sh(<<"c", "f">>), Lg(s_count), Sh(<<"m">>), <<"7">>,
      LgEq(s_int, <<"7">>), <<"-", "-">>, Sh(<<"h">>), <<"-">>, Sh(<<"i">>) }

ExampleTokens ==
    { Sh(<<"n">>), <<"x">>, Lg(s_name), Sh(<<"g">>), Sh(<<"t", "g", "t">>),
      Sh(<<"p">>), <<"-", "-">>, Sh(<<"V">>), LgEq(s_age, <<"0", "7">>),
      Sh(<<"g", "n", "x">>) }

RequiredTokens ==
    { Sh(<<"a", "x">>), LgEq(s_beta, <<"7">>), Sh(<<"g", "x">>), Sh(<<"f">>),
      <<"-", "-">>, Sh(<<"h">>), Lg(s_version), Sh(<<"f", "V">>), <<"y">> }

CounterTokens ==
    { Sh(<<"c">>), Sh(<<"c", "c", "c">>), Sh(<<"v", "v">>), Lg(s_verbose),
      Sh(<<"f">>), Sh(<<"c", "v", "c">>), <<"-", "-">>, Sh(<<"h">>) }

ClusterTokens ==
    { Sh(<<"f", "a", "x", "x", "x", "g">>), Sh(<<"f">>), Sh(<<"g", "f">>),
      Sh(<<"g", "a">>), <<"x">>, Sh(<<"a", "=", "g">>), LgEq(s_aaa, <<"g">>) }

\* Three options that take a value: a string, an integer, and a string
\* that may start with a hyphen.
RegValue ==
    << Wrapper("a", s_aaa, NORMAL, "string", FALSE, FALSE, <<>>),
       Wrapper("i", <<"i", "i", "i">>, NORMAL, "u8", FALSE, FALSE, 0),
       Wrapper("p", <<"p", "p", "p">>, NORMAL, "string", FALSE, TRUE, <<>>) >>

ValueTexts ==
    { <<"x">>, <<"x", "y">>, <<"=", "y">>, <<"x", "=", "y">>, <<"7">>,
      <<"1", "2">>, <<"-", "b">>, <<"-", "-">> }

\* The five ways of the README to write the option o with the value v.
FiveForms(o, v) ==
    { <<Sh(<<o.shrt>>), v>>, <<Sh(<<o.shrt>>) \o v>>,
      <<Sh(<<o.shrt, "=">>) \o v>>, <<Lg(o.lng), v>>, <<LgEq(o.lng, v)>> }

\* One occurrence of an option of RegValue: with a value in one of the five
\* forms, or with none.
ValueVectors ==
    UNION { FiveForms(RegValue[i], v) \cup
            { <<Sh(<<RegValue[i].shrt>>)>>, <<Lg(RegValue[i].lng)>> } :
            i \in 1..Len(RegValue), v \in ValueTexts }

\* The short flags of RegCounter and of help and version.
\* Texts handed to the integer option of RegValue, attached to its long
\* flag, in the token after its short flag, and attached to its short flag.
IntegerTexts ==
    { <<>>, <<"0">>, <<"7">>, <<"0", "0">>, <<"0", "7">>, <<"0", "8">>,
      <<"1", "2">>, <<"1", "x">>, <<"x">>, <<"0", "x">>, <<"0", "x", "g">>,
      <<"0", "x", "1", "f">>, <<"0", "x", "F", "F">>, <<"0", "x", "1", "0", "0">>,
      <<"0", "1", "7">>, <<"0", "3", "7", "7">>, <<"0", "4", "0", "0">>,
      <<"2", "5", "5">>, <<"2", "5", "6">>, <<"1", "0">>, <<"0", "1", "9">>,
      <<"1", "f">>, <<"0", "0", "x", "1">> }

IntegerVectors ==
    UNION { { <<LgEq(RegValue[2].lng, t)>>,
              <<Sh(<<RegValue[2].shrt>>), t>>,
              <<Sh(<<RegValue[2].shrt>>) \o t>>,
              <<LgEq(RegValue[2].lng, t), Sh(<<"a">>) \o t>> } :
            t \in IntegerTexts }

\* Options of string, integer and character type and a vector of strings,
\* given an attached value that is empty or starts with "=".
s_chr == <<"c", "h", "r">>

RegEmpty ==
    << Wrapper("n", s_name, NORMAL, "string", FALSE, FALSE, <<"d">>),
       Wrapper("i", s_int, NORMAL, "u8", FALSE, FALSE, 18),
       Wrapper("c", s_chr, NORMAL, "char", FALSE, FALSE, "d"),
       Wrapper("m", s_multi, VECTOR, "string", FALSE, FALSE, <<>>) >>

EmptyForms ==
    UNION { { LgEq(RegEmpty[i].lng, <<>>), Sh(<<RegEmpty[i].shrt, "=">>),
              LgEq(RegEmpty[i].lng, <<"=", "x">>),
              Sh(<<RegEmpty[i].shrt, "=", "=", "x">>),
              Sh(<<RegEmpty[i].shrt, "=", "=">>),
              Sh(<<RegEmpty[i].shrt, "=", "x">>) } : i \in 1..Len(RegEmpty) }

EmptyVectors ==
    UNION { { <<t>>, <<t, u>> } :
            t \in EmptyForms,
            u \in { <<"x">>, Sh(<<"n", "=">>), LgEq(s_multi, <<>>),
                    Sh(<<"m">>) } }

NoValueLetters == {"v", "c", "f", "h", "V"}

LetterRuns == UNION {[1..k -> NoValueLetters] : k \in 1..MaxCluster}

\* The letters xs as one cluster and as one token each.
Clustered(xs) == <<Sh(xs)>>
Separated(xs) == [k \in 1..Len(xs) |-> Sh(<<xs[k]>>)]

ClusterVectors ==
    UNION {{Clustered(xs), Separated(xs)} : xs \in LetterRuns}

\* Tokens for RegValue with the flags of the option that allows a hyphen,
\* the terminator and flags that may follow it.
HyphenValueTokens ==
    { Sh(<<"p">>), Lg(RegValue[3].lng), <<"-", "-">>, Sh(<<"a", "x">>),
      Sh(<<"a">>), Sh(<<"i", "7">>), Sh(<<"h">>), <<"x">> }

\* Clusters with the letters of help and version, followed by a letter the
\* registry does not have, by themselves, by an option that needs a value.
HelpTokens ==
    { Sh(<<"h", "z">>), Sh(<<"h", "h">>), Sh(<<"h", "a">>), Sh(<<"h", "V">>),
      Sh(<<"V", "h">>), Sh(<<"f", "h">>), Sh(<<"h">>), Sh(<<"V">>), <<"x">>,
      Sh(<<"h", "a", "x">>), Sh(<<"V", "z">>), Sh(<<"f">>) }

\* Short clusters with a hyphen after a flag that takes no value.
HyphenTokens ==
    { Sh(<<"f", "-", "g">>), Sh(<<"f", "-", "z">>), Sh(<<"g", "-", "f">>),
      Sh(<<"f", "-">>), Sh(<<"f", "g", "-", "a">>), Sh(<<"f", "-", "-">>),
      Sh(<<"f">>), Sh(<<"g">>), <<"-", "-">>, Sh(<<"a", "-", "g">>) }

\* Tokens that are no flag at all (a bare word, the empty string) or name a
\* flag the registry does not have, next to flags it has.
s_nope == <<"n", "o", "p", "e">>

UnknownTokens ==
    { <<>>, <<"x">>, Sh(<<"z">>), Sh(<<"f", "z">>), Sh(<<"f", "z", "g">>),
      Lg(s_nope), LgEq(s_nope, <<"x">>), Sh(<<"a">>), Lg(s_aaa), Sh(<<"f">>),
      <<"-", "-">>, Sh(<<"a", "z">>) }

\* Options that take no value, one of them with '=' as its short flag, and
\* one option that takes a value; tokens that give them a value nonetheless.
s_eq == <<"e", "q">>

RegEquals ==
    << Wrapper("f", s_flag, BOOLEAN_, "bool", FALSE, FALSE, FALSE),
       Wrapper("=", s_eq, COUNTER, "counter", FALSE, FALSE, 0),
       Wrapper("v", s_verbose, COUNTER, "counter", FALSE, FALSE, 0),
       Wrapper("a", s_aaa, NORMAL, "string", FALSE, FALSE, <<>>) >>

EqualsTokens ==
    { LgEq(s_flag, <<>>), LgEq(s_flag, <<"x">>), LgEq(s_verbose, <<"f">>),
      Sh(<<"f", "=">>), Sh(<<"f", "=", "v">>), Sh(<<"v", "=", "x">>),
      LgEq(s_aaa, <<"x">>), LgEq(<<"h", "e", "l", "p">>, <<>>), Sh(<<"f">>),
      Lg(s_flag), LgEq(s_eq, <<"=">>), LgEq(<<"x">>, <<"x">>) }

\* Registries that meta::meta refuses: two options with one short flag,
\* two with one long flag, and options that claim a flag of help or version.
RegSameShort ==
    << Wrapper("a", s_alpha, NORMAL, "string", FALSE, FALSE, <<>>),
       Wrapper("f", s_flag, BOOLEAN_, "bool", FALSE, FALSE, FALSE),
       Wrapper("a", s_beta, BOOLEAN_, "bool", FALSE, FALSE, FALSE) >>

RegSameLong ==
    << Wrapper("a", s_alpha, NORMAL, "string", FALSE, FALSE, <<>>),
       Wrapper("b", s_alpha, COUNTER, "counter", FALSE, FALSE, 0) >>

RegClaimsHelpShort ==
    << Wrapper("h", <<"h", "o", "s", "t">>, NORMAL, "string", FALSE, FALSE, <<>>) >>

RegClaimsHelpLong ==
    << Wrapper("a", s_alpha, NORMAL, "string", FALSE, FALSE, <<>>),
       Wrapper("x", <<"h", "e", "l", "p">>, BOOLEAN_, "bool", FALSE, FALSE, FALSE) >>

RegClaimsVersionShort ==
    << Wrapper("V", s_verbose, COUNTER, "counter", FALSE, FALSE, 0) >>

RegClaimsVersionLong ==
    << Wrapper(NUL, s_version, NORMAL, "string", FALSE, FALSE, <<>>),
       Wrapper("a", s_alpha, NORMAL, "string", FALSE, FALSE, <<>>) >>

\* Registries with an option that meta::meta refuses by itself: no flag at
\* all, a short flag below '!', the short flag '-'; the last one has both an
\* option without flags and two options with one short flag.
RegNoFlags ==
    << Wrapper("a", s_alpha, NORMAL, "string", TRUE, FALSE, <<>>),
       Wrapper(NUL, <<>>, BOOLEAN_, "bool", FALSE, FALSE, FALSE) >>

RegNotPrintable ==
    << Wrapper("a", s_alpha, NORMAL, "string", FALSE, FALSE, <<>>),
       Wrapper(" ", s_beta, COUNTER, "counter", FALSE, FALSE, 0) >>

RegHyphen ==
    << Wrapper("-", s_alpha, NORMAL, "string", FALSE, FALSE, <<>>) >>

RegNoFlagsSameShort ==
    << Wrapper("a", s_alpha, NORMAL, "string", TRUE, FALSE, <<>>),
       Wrapper("a", s_beta, NORMAL, "u8", FALSE, FALSE, 0),
       Wrapper(NUL, <<>>, NORMAL, "string", TRUE, FALSE, <<>>) >>

ConfigTokens == { Sh(<<"a">>), <<"x">>, Sh(<<"h">>), <<"-", "-">> }

MultiValueTexts == {<<"1">>, <<"2">>, <<"3">>}

\* One occurrence of the vector option in each of its four forms.
MultiUnits ==
    UNION { { <<Sh(<<"p">>), v>>, <<Lg(s_place), v>>, <<Sh(<<"p">>) \o v>>,
              <<LgEq(s_place, v)>> } : v \in MultiValueTexts }

\* The command line of the acceptance test.
AcceptanceArgs ==
    << <<"-", "n">>,
       <<"N", "e", "e", "l", "y", " ", "K", "a", "e", "d", "e", "n">>,
       <<"-", "-", "p", "l", "a", "c", "e", "=", "n", "e", "w", " ", "y", "o", "r", "k">>,
       <<"-", "p">>,
       <<"-", "c", "h", "i", "c", "a", "g", "o">>,
       <<"-", "p">>,
       <<"-", "-">>,
       <<"-", "t", "g", "t", "t", "t", "t", "p", "=", "-", "s", "a", "n", "-", "d", "i", "e", "g", "o">>,
       <<"-", "-">>,
       <<"t", "e", "s", "t", "-", "d", "o", "u", "b", "l", "e", "-", "h", "y", "p", "h", "e", "n">>,
       <<"-", "s", "h", "o", "r", "t">>,
       <<"-", "-", "l", "o", "n", "g">>,
       <<"-", "-">>,
       <<"a", "f", "t", "e", "r", "-", "a", "n", "o", "t", "h", "e", "r", "-", "d", "o", "u", "b", "l", "e", "-", "h", "y", "p", "h", "e", "n">> >>

\* What is parsed: a registry, with or without an ignored member, against
\* every vector of at most MaxArgs of its tokens, against every vector of at
\* most MaxUnits of its units, or against every prefix of its command line.
Family(d, sink, of) == [decl |-> d, has_sink |-> sink, of |-> of]

TokenFamilies ==
    { Family(RegMixed, TRUE, MixedTokens),
      Family(RegExample, FALSE, ExampleTokens),
      Family(RegRequired, TRUE, RequiredTokens),
      Family(RegCounter, TRUE, CounterTokens),
      Family(RegCluster, FALSE, ClusterTokens),
      Family(RegEquals, FALSE, EqualsTokens),
      Family(RegCluster, TRUE, UnknownTokens),
      Family(RegCluster, FALSE, HelpTokens),
      Family(RegValue, TRUE, HyphenValueTokens),
      Family(RegCluster, TRUE, HyphenTokens),
      Family(RegSameShort, FALSE, ConfigTokens),
      Family(RegSameLong, TRUE, ConfigTokens),
      Family(RegClaimsHelpShort, FALSE, ConfigTokens),
      Family(RegClaimsHelpLong, FALSE, ConfigTokens),
      Family(RegClaimsVersionShort, TRUE, ConfigTokens),
      Family(RegClaimsVersionLong, FALSE, ConfigTokens),
      Family(RegNoFlags, FALSE, ConfigTokens),
      Family(RegNotPrintable, TRUE, ConfigTokens),
      Family(RegHyphen, FALSE, ConfigTokens),
      Family(RegNoFlagsSameShort, FALSE, ConfigTokens) }

UnitFamilies == { Family(RegMulti, FALSE, MultiUnits) }

VectorFamilies ==
    { Family(RegValue, FALSE, ValueVectors),
      Family(RegValue, TRUE, IntegerVectors),
      Family(RegEmpty, FALSE, EmptyVectors),
      Family(RegCounter, FALSE, ClusterVectors) }

LineFamilies ==
    { Family(RegAcceptance, TRUE, AcceptanceArgs),
      Family(RegExample, FALSE, AcceptanceArgs) }

program_name == <<"e", "x">>

\* greet::greet entered with the argument vector args after the program
\* name, for a struct whose genmeta() declares d.
Entered(d, sink, args) ==
    /\ decl = d
    /\ has_sink = sink
    /\ argv = <<program_name>> \o args
    /\ pc = "start"
    /\ argi = 0
    /\ off = 0
    /\ argtype_ = ARGUMENT
    /\ flag = <<>>
    /\ newarg = FALSE
    /\ opts = <<>>
    /\ sorted_by_flag = [k \in {} |-> 0]
    /\ required_opts = <<>>
    /\ field = <<>>
    /\ set_flag = <<>>
    /\ ignored = <<>>
    /\ outcome = NoOutcome
    /\ calls = <<>>

Init ==
    \/ \E f \in TokenFamilies, k \in 0..MaxArgs :
         \E v \in [1..k -> f.of] : Entered(f.decl, f.has_sink, v)
    \/ \E f \in UnitFamilies, k \in 0..MaxUnits :
         \E us \in [1..k -> f.of] : Entered(f.decl, f.has_sink, Flatten(us))
    \/ \E f \in VectorFamilies :
         \E v \in f.of : Entered(f.decl, f.has_sink, v)
    \/ \E f \in LineFamilies :
         \E k \in 0..Len(f.of) :
           Entered(f.decl, f.has_sink, SubSeq(f.of, 1, k))

-----------------------------------------------------------------------------
(* Steps of greet::greet *)

\* What a read of argv[0][0] past the terminator of the token may give: the
\* byte is outside the string, so it is 0 or it is not.
Garbage == {NUL, "?"}

\* The byte the code reads at offset k of the current token.
Reads(tok, k) == IF k <= Len(tok) THEN {CharAt(tok, k)} ELSE Garbage

\* A start that goes on to the arguments whatever the constructor found.
Started_unchecked(m) ==
    /\ opts' = unpack_opts(decl)
    /\ sorted_by_flag' = m.table
    /\ required_opts' = m.req
    /\ field' = [i \in 1..Len(decl) + 2 |-> unpack_opts(decl)[i].init]
    /\ set_flag' = [i \in 1..Len(decl) + 2 |-> FALSE]
    /\ argi' = argi + 1
    /\ pc' = "loop"
    /\ UNCHANGED outcome

Started(m) ==
    IF m.err # "none"
    THEN /\ outcome' = internal_error(m.err, m.flag)
         /\ pc' = "done"
         /\ UNCHANGED <<argi, opts, sorted_by_flag, required_opts, field,
                        set_flag>>
    ELSE /\ opts' = unpack_opts(decl)
         /\ sorted_by_flag' = m.table
         /\ required_opts' = m.req
         /\ field' = [i \in 1..Len(decl) + 2 |-> unpack_opts(decl)[i].init]
         /\ set_flag' = [i \in 1..Len(decl) + 2 |-> FALSE]
         /\ argi' = argi + 1
         /\ pc' = "loop"
         /\ UNCHANGED outcome

\* ArgsGroupT args{}; meta m = args.genmeta(); remove_one_arg(argc, argv);
Start ==
    /\ pc = "start"
    /\ Started(meta(decl))
    /\ UNCHANGED <<decl, has_sink, argv, off, argtype_, flag, newarg, ignored,
                   calls>>

\* while (argc) fails: on to the required options.
LoopExit ==
    /\ pc = "loop"
    /\ argc_(argi) = 0
    /\ pc' = "required"
    /\ UNCHANGED <<decl, has_sink, argv, argi, off, argtype_, flag, newarg,
                   opts, sorted_by_flag, required_opts, field, set_flag,
                   ignored, outcome, calls>>

\* case SHORT: ++argv[0]; then the while (true) loop.
\* A scan that starts one character too far into the token.
CaseShort_skips_two ==
    /\ pc = "loop"
    /\ argc_(argi) # 0
    /\ argtype(argv[argi + 1]) = SHORT
    /\ argtype_' = SHORT
    /\ off' = off + 2
    /\ pc' = "short"
    /\ UNCHANGED <<decl, has_sink, argv, argi, flag, newarg, opts,
                   sorted_by_flag, required_opts, field, set_flag, ignored,
                   outcome, calls>>

CaseShort ==
    /\ pc = "loop"
    /\ argc_(argi) # 0
    /\ argtype(argv[argi + 1]) = SHORT
    /\ argtype_' = SHORT
    /\ off' = off + 1
    /\ pc' = "short"
    /\ UNCHANGED <<decl, has_sink, argv, argi, flag, newarg, opts,
                   sorted_by_flag, required_opts, field, set_flag, ignored,
                   outcome, calls>>

\* A cluster scan that breaks after its first flag.
Returns_breaks(r) ==
    /\ calls' = Append(calls, Call(flag, newarg, argi, off, r))
    /\ field' = r.fld
    /\ set_flag' = r.sf
    /\ argi' = IF argtype_ = SHORT /\ ~newarg /\ ~r.ret
                  /\ r.exit.kind = "running"
               THEN r.ai + 1 ELSE r.ai
    /\ off' = 0
    /\ outcome' = r.exit
    /\ pc' = IF r.exit.kind # "running" THEN "done" ELSE "check"

\* The head of one iteration of the while (true) loop of case SHORT, up to
\* the call of parse_helper: flag = "-" + argv[0][0]; ++argv[0]; and, when
\* the token is exhausted, remove_one_arg.
\* A scan that takes a hyphen inside a cluster for the end of the token.
ShortStep_stops_at_hyphen ==
    /\ pc = "short"
    /\ \E c \in Reads(argv[argi + 1], off), d \in Reads(argv[argi + 1], off + 1) :
         IF c = "-"
         THEN /\ argi' = argi + 1
              /\ off' = 0
              /\ pc' = "check"
              /\ UNCHANGED <<flag, newarg>>
         ELSE /\ flag' = <<"-", c>>
              /\ newarg' = (d = NUL)
              /\ argi' = IF d = NUL THEN argi + 1 ELSE argi
              /\ off' = IF d = NUL THEN 0 ELSE off + 1
              /\ pc' = "helper"
    /\ UNCHANGED <<decl, has_sink, argv, argtype_, opts, sorted_by_flag,
                   required_opts, field, set_flag, ignored, outcome, calls>>

\* A scan that reads the same character of the cluster again.
ShortStep_stays ==
    /\ pc = "short"
    /\ \E c \in Reads(argv[argi + 1], off), d \in Reads(argv[argi + 1], off + 1) :
         /\ flag' = <<"-", c>>
         /\ newarg' = (d = NUL)
         /\ argi' = IF d = NUL THEN argi + 1 ELSE argi
         /\ off' = IF d = NUL THEN 0 ELSE off
    /\ pc' = "helper"
    /\ UNCHANGED <<decl, has_sink, argv, argtype_, opts, sorted_by_flag,
                   required_opts, field, set_flag, ignored, outcome, calls>>

ShortStep ==
    /\ pc = "short"
    /\ \E c \in Reads(argv[argi + 1], off), d \in Reads(argv[argi + 1], off + 1) :
         /\ flag' = <<"-", c>>
         /\ newarg' = (d = NUL)
         /\ argi' = IF d = NUL THEN argi + 1 ELSE argi
         /\ off' = IF d = NUL THEN 0 ELSE off + 1
    /\ pc' = "helper"
    /\ UNCHANGED <<decl, has_sink, argv, argtype_, opts, sorted_by_flag,
                   required_opts, field, set_flag, ignored, outcome, calls>>

\* case LONG, up to the call of parse_helper.
CaseLong ==
    /\ pc = "loop"
    /\ argc_(argi) # 0
    /\ argtype(argv[argi + 1]) = LONG
    /\ argtype_' = LONG
    /\ IF strchr(argv[argi + 1], "=") # -1
       THEN /\ flag' = SubSeq(argv[argi + 1], 1, strchr(argv[argi + 1], "="))
            /\ off' = strchr(argv[argi + 1], "=")
            /\ argi' = argi
            /\ newarg' = FALSE
       ELSE /\ flag' = argv[argi + 1]
            /\ off' = 0
            /\ argi' = argi + 1
            /\ newarg' = TRUE
    /\ pc' = "helper"
    /\ UNCHANGED <<decl, has_sink, argv, opts, sorted_by_flag, required_opts,
                   field, set_flag, ignored, outcome, calls>>

\* A return that goes to the help and version check after every flag.
Returns_checks_each(r) ==
    /\ calls' = Append(calls, Call(flag, newarg, argi, off, r))
    /\ field' = r.fld
    /\ set_flag' = r.sf
    /\ argi' = r.ai
    /\ off' = r.of
    /\ outcome' = r.exit
    /\ pc' = IF r.exit.kind # "running" THEN "done" ELSE "check"

\* A return that lets the parse go on after an error.
Returns_goes_on(r) ==
    /\ calls' = Append(calls, Call(flag, newarg, argi, off, r))
    /\ field' = r.fld
    /\ set_flag' = r.sf
    /\ argi' = r.ai
    /\ off' = r.of
    /\ outcome' = r.exit
    /\ pc' = IF argtype_ = SHORT /\ ~newarg /\ ~r.ret THEN "short"
             ELSE "check"

Returns(r) ==
    /\ calls' = Append(calls, Call(flag, newarg, argi, off, r))
    /\ field' = r.fld
    /\ set_flag' = r.sf
    /\ argi' = r.ai
    /\ off' = r.of
    /\ outcome' = r.exit
    /\ pc' = IF r.exit.kind # "running" THEN "done"
             ELSE IF argtype_ = SHORT /\ ~newarg /\ ~r.ret THEN "short"
             ELSE "check"

\* The call parse_helper(flag, newarg) and what follows its return: the
\* cluster scan goes on when the call came from inside a short token and
\* returned false, every other call is followed by the break.
ParseHelper ==
    /\ pc = "helper"
    /\ Returns(parse_helper(argtype_, flag, newarg, argi, off))
    /\ UNCHANGED <<decl, has_sink, argv, argtype_, flag, newarg, opts,
                   sorted_by_flag, required_opts, ignored>>

\* A bare token that is dropped while the scan goes on.
CaseArgument_skips ==
    /\ pc = "loop"
    /\ argc_(argi) # 0
    /\ argtype(argv[argi + 1]) = ARGUMENT
    /\ argtype_' = ARGUMENT
    /\ argi' = argi + 1
    /\ pc' = "check"
    /\ UNCHANGED <<decl, has_sink, argv, off, flag, newarg, opts,
                   sorted_by_flag, required_opts, field, set_flag, ignored,
                   outcome, calls>>

\* case ARGUMENT
CaseArgument ==
    /\ pc = "loop"
    /\ argc_(argi) # 0
    /\ argtype(argv[argi + 1]) = ARGUMENT
    /\ argtype_' = ARGUMENT
    /\ outcome' = unexpected_argument(argv[argi + 1])
    /\ pc' = "done"
    /\ UNCHANGED <<decl, has_sink, argv, argi, off, flag, newarg, opts,
                   sorted_by_flag, required_opts, field, set_flag, ignored,
                   calls>>

\* A terminator that is dropped while the scan goes on.
CaseEndarg_goes_on ==
    /\ pc = "loop"
    /\ argc_(argi) # 0
    /\ argtype(argv[argi + 1]) = ENDARG
    /\ argtype_' = ENDARG
    /\ argi' = argi + 1
    /\ pc' = "check"
    /\ UNCHANGED <<decl, has_sink, argv, off, flag, newarg, opts,
                   sorted_by_flag, required_opts, field, set_flag, ignored,
                   outcome, calls>>

\* case ENDARG: drop the "--", then move every remaining token to the
\* ignored member, when there is one.
CaseEndarg ==
    /\ pc = "loop"
    /\ argc_(argi) # 0
    /\ argtype(argv[argi + 1]) = ENDARG
    /\ argtype_' = ENDARG
    /\ ignored' = IF has_sink
                  THEN ignored \o SubSeq(argv, argi + 2, Len(argv))
                  ELSE ignored
    /\ argi' = Len(argv)
    /\ pc' = "check"
    /\ UNCHANGED <<decl, has_sink, argv, off, flag, newarg, opts,
                   sorted_by_flag, required_opts, field, set_flag, outcome,
                   calls>>

\* A check that looks at the help flag only.
HelpCheck_help_only ==
    /\ pc = "check"
    /\ IF field[Len(decl) + 1]
       THEN outcome' = print_help /\ pc' = "done"
       ELSE outcome' = outcome /\ pc' = "loop"
    /\ UNCHANGED <<decl, has_sink, argv, argi, off, argtype_, flag, newarg,
                   opts, sorted_by_flag, required_opts, field, set_flag,
                   ignored, calls>>

\* if (m.help()) ... std::exit(0); if (m.version()) ... std::exit(0);
HelpCheck ==
    /\ pc = "check"
    /\ IF field[Len(decl) + 1]
       THEN outcome' = print_help /\ pc' = "done"
       ELSE IF field[Len(decl) + 2]
       THEN outcome' = print_version /\ pc' = "done"
       ELSE outcome' = outcome /\ pc' = "loop"
    /\ UNCHANGED <<decl, has_sink, argv, argi, off, argtype_, flag, newarg,
                   opts, sorted_by_flag, required_opts, field, set_flag,
                   ignored, calls>>

\* A validation that stops at the first required option that is not set.
missing_first ==
    LET unset == SelectSeq(required_opts, LAMBDA i : ~set_flag[i])
    IN  IF unset = <<>> THEN <<>> ELSE <<unset[1]>>

\* The required options that were never set, in the order of _required_opts.
missing_opts == SelectSeq(required_opts, LAMBDA i : ~set_flag[i])

\* The loop over m.required_opts(), then return args.
Required ==
    /\ pc = "required"
    /\ outcome' = IF Len(missing_opts) # 0 THEN missing_options(missing_opts)
                  ELSE returned
    /\ pc' = "done"
    /\ UNCHANGED <<decl, has_sink, argv, argi, off, argtype_, flag, newarg,
                   opts, sorted_by_flag, required_opts, field, set_flag,
                   ignored, calls>>

Next ==
    \/ Start
    \/ LoopExit
    \/ CaseShort
    \/ ShortStep
    \/ CaseLong
    \/ ParseHelper
    \/ CaseArgument
    \/ CaseEndarg
    \/ HelpCheck
    \/ Required

Spec == Init /\ [][Next]_vars

\* The vectors of the runs that are followed to their end: one token of
\* every class and both ways a value is given, for the main loop, and the
\* clusters of flags that take no value, for the scan of a short token.
LiveTokens ==
    { Sh(<<"a">>), <<"x">>, Sh(<<"c", "f", "c">>), LgEq(s_int, <<"7">>),
      <<"-", "-">>, Lg(s_count) }

LiveLetters == {"v", "c", "f"}

LiveRuns == UNION {[1..k -> LiveLetters] : k \in 1..MaxCluster}

LiveInit ==
    \/ \E k \in 0..MaxArgs :
          \E v \in [1..k -> LiveTokens] : Entered(RegMixed, TRUE, v)
    \/ \E xs \in LiveRuns : Entered(RegCounter, FALSE, Clustered(xs))

\* The process runs on one thread and nothing suspends it: a step that can
\* be taken is taken.
LiveSpec == LiveInit /\ [][Next]_vars /\ WF_vars(Next)

-----------------------------------------------------------------------------
(* Properties *)

Done == pc = "done"

\* The main loop ended by itself: the input was exhausted or "--" was met,
\* no token raised an error and neither help nor version was asked for.
EndedNormally == Done /\ outcome.kind \in {"returned", "missing_options"}

\* Option i was given: some occurrence of one of its flags stored a value.
Supplied(i) ==
    \E k \in DOMAIN calls : calls[k].opt = i /\ calls[k].result = "set"

DeclaredRequired ==
    {i \in DOMAIN decl : decl[i].opttype = NORMAL /\ decl[i].required}

\* The declared required options that were not given, in declaration order.
UnsetRequired ==
    SelectSeq([i \in DOMAIN decl |-> i],
              LAMBDA i : i \in DeclaredRequired /\ ~Supplied(i))

\* C1 as stated: whenever the only required option is a Single that the
\* argument vector never supplies, the parse ends in the missing-option error
\* that names exactly that option.
C1_EveryVector ==
    \A i \in DOMAIN decl :
        Done /\ DeclaredRequired = {i} /\ ~Supplied(i)
            => outcome.kind = "missing_options" /\ outcome.missing = <<i>>

\* C1, amended: when the only required option is a Single that the argument
\* vector never supplies, and the parse ends neither in the error of some
\* token nor in help or version, it ends in the missing-option error (exit
\* code 2) that names exactly that option.
C1_MissingOption ==
    \A i \in DOMAIN decl :
        EndedNormally /\ DeclaredRequired = {i} /\ ~Supplied(i)
            => /\ outcome.kind = "missing_options"
               /\ outcome.missing = <<i>>
               /\ outcome.code = 2

\* Other options were given, the required one was not, and it is reported.
C1_Witness ==
    /\ Done
    /\ DeclaredRequired = {1}
    /\ ~Supplied(1)
    /\ \E k \in DOMAIN calls : calls[k].result = "set"
    /\ outcome.kind = "missing_options"
    /\ outcome.missing = <<1>>

\* C2: when the main loop ends normally and required options were never set,
\* one missing-option error lists every unset required option, in declaration
\* order, and no option that was set; with none unset the parse returns.
C2_AllMissingInOrder ==
    EndedNormally =>
        IF UnsetRequired # <<>>
        THEN outcome.kind = "missing_options" /\ outcome.missing = UnsetRequired
        ELSE outcome.kind = "returned"

\* Of three required options the first was given and the two others are
\* reported, in the order of their declaration.
C2_Witness ==
    /\ Done
    /\ Cardinality(DeclaredRequired) = 3
    /\ Supplied(1)
    /\ outcome.kind = "missing_options"
    /\ Len(outcome.missing) = 2
    /\ outcome.missing[1] < outcome.missing[2]

\* The call k of parse_helper is a repeated occurrence of a Single or a Flag:
\* an earlier call on the same option stored a value.
SecondOccurrence(k) ==
    /\ calls[k].opt # 0
    /\ opts[calls[k].opt].opttype \in {NORMAL, BOOLEAN_}
    /\ \E j \in 1..(k - 1) :
         calls[j].opt = calls[k].opt /\ calls[j].result = "set"

NeverMultipleUse ==
    \A k \in DOMAIN calls :
        calls[k].opt # 0 /\ opts[calls[k].opt].opttype \in {COUNTER, VECTOR}
            => calls[k].result # "used_mutiple"

\* C3 as stated: every repeated occurrence of a Single or a Flag ends in the
\* multiple-use error, and no occurrence of a Counter or a Multi does.
C3_EveryRepeat ==
    /\ \A k \in DOMAIN calls :
         SecondOccurrence(k) => calls[k].result = "used_mutiple"
    /\ NeverMultipleUse

\* The occurrence comes with a value: attached to its token, or in a next
\* token that may be taken as a value.
ValueAvailable(k) ==
    \/ ~calls[k].newarg
    \/ /\ calls[k].argc > 0
       /\ calls[k].head # "-" \/ opts[calls[k].opt].allow_hyphen

\* The occurrence is a long flag followed by "=value" in the same token.
InlineValue(k) ==
    Len(calls[k].flag) > 2 /\ ~calls[k].newarg /\ calls[k].head = "="

\* C3, amended: a repeated occurrence of a Single ends in the multiple-use
\* error when a value comes with it and in the missing-value error when none
\* does; a repeated occurrence of a Flag ends in the multiple-use error
\* unless it is a long flag with an inline value, which ends in the
\* unexpected-value error; this holds whichever form set the option first and
\* whichever repeats it, and no occurrence of a Counter or a Multi ends in the
\* multiple-use error.
C3_MultipleUse ==
    /\ \A k \in DOMAIN calls :
         SecondOccurrence(k) =>
             calls[k].result =
                 IF opts[calls[k].opt].opttype = NORMAL
                 THEN IF ValueAvailable(k) THEN "used_mutiple"
                      ELSE "missing_value"
                 ELSE IF InlineValue(k) THEN "unexpected_value"
                      ELSE "used_mutiple"
    /\ NeverMultipleUse

\* A flag set by its long form is repeated inside a short cluster and the
\* parse ends in the multiple-use error.
C3_Witness ==
    /\ Done
    /\ outcome.kind = "used_mutiple"
    /\ \E k \in DOMAIN calls :
         /\ SecondOccurrence(k)
         /\ Len(calls[k].flag) = 2
         /\ ~calls[k].newarg
         /\ \E j \in 1..(k - 1) :
              /\ calls[j].opt = calls[k].opt
              /\ Len(calls[j].flag) > 2

\* The argument vector without the program name.
Args == SubSeq(argv, 2, Len(argv))

IsShortToken(tok) ==
    Len(tok) >= 2 /\ tok[1] = "-" /\ tok[2] # "-"

\* How often a token mentions the option o: once as its long flag, or once
\* for every letter of a short token that is its short flag.
WrittenIn(tok, o) ==
    IF o.lng # <<>> /\ tok = <<"-", "-">> \o o.lng THEN 1
    ELSE IF IsShortToken(tok)
    THEN Cardinality({k \in 2..Len(tok) : tok[k] = o.shrt})
    ELSE 0

RECURSIVE Written(_, _)
Written(v, o) ==
    IF v = <<>> THEN 0 ELSE WrittenIn(v[1], o) + Written(Tail(v), o)

\* Every token is a long flag or a cluster of short flags of declared
\* options that take no value.
NoValueVector ==
    \A t \in DOMAIN Args :
        \/ \E i \in DOMAIN decl :
             /\ decl[i].opttype \in {BOOLEAN_, COUNTER}
             /\ decl[i].lng # <<>>
             /\ Args[t] = <<"-", "-">> \o decl[i].lng
        \/ /\ IsShortToken(Args[t])
           /\ \A k \in 2..Len(Args[t]) :
                \E i \in DOMAIN decl :
                    /\ decl[i].opttype \in {BOOLEAN_, COUNTER}
                    /\ decl[i].shrt = Args[t][k]

\* The calls of parse_helper that stored a value in option i, in call order.
Stores(i) == SelectSeq(calls, LAMBDA c : c.opt = i /\ c.result = "set")

\* C4: the final count of a Counter is the number of its occurrences,
\* however they are written: repeated short tokens, letters of one cluster
\* and long flags add up (-c -c -c and -ccc give 3, -vv --verbose gives 3).
C4_CounterCounts ==
    /\ field # <<>> =>
         \A i \in DOMAIN decl :
             decl[i].opttype = COUNTER => field[i] = Len(Stores(i))
    /\ Done /\ outcome.kind = "returned" /\ NoValueVector =>
         \A i \in DOMAIN decl :
             decl[i].opttype = COUNTER => field[i] = Written(Args, decl[i])
    /\ Done /\ decl = RegCounter
            /\ Args \in {<<Sh(<<"c">>), Sh(<<"c">>), Sh(<<"c">>)>>,
                         <<Sh(<<"c", "c", "c">>)>>} =>
         outcome.kind = "returned" /\ field[2] = 3

\* A cluster of two and a long flag of the same counter give 3.
C4_Witness ==
    /\ Done
    /\ outcome.kind = "returned"
    /\ decl = RegCounter
    /\ Args = <<Sh(<<"v", "v">>), Lg(s_verbose)>>
    /\ field[1] = 3

DecimalDigit(c) ==
    CHOOSE n \in 0..9 :
        <<"0", "1", "2", "3", "4", "5", "6", "7", "8", "9">>[n + 1] = c

\* The values of a vector of occurrences of -p/--place, each of a single
\* digit: "-p d", "--place d", "-pd" or "--place=d".
RECURSIVE UnitValues(_)
UnitValues(v) ==
    IF v = <<>> THEN <<>>
    ELSE IF v[1] \in {<<"-", "p">>, <<"-", "-">> \o s_place}
    THEN <<DecimalDigit(v[2][1])>> \o UnitValues(SubSeq(v, 3, Len(v)))
    ELSE <<DecimalDigit(v[1][Len(v[1])])>> \o UnitValues(Tail(v))

\* C5: the sequence of a Multi consists of exactly the converted values of
\* its occurrences, in input order, duplicates retained, short and long
\* occurrences interleaved (-p 1 -p 2 -p 3 gives [1, 2, 3]).
C5_MultiKeepsOrder ==
    /\ field # <<>> =>
         \A i \in DOMAIN decl :
             decl[i].opttype = VECTOR =>
                 field[i] = [k \in 1..Len(Stores(i)) |->
                                from_str(decl[i].conv, Stores(i)[k].value).v]
    /\ Done /\ decl = RegMulti =>
         outcome.kind = "returned" /\ field[1] = UnitValues(Args)

\* Three occurrences, a short one with a duplicate value among them.
C5_Witness ==
    /\ Done
    /\ outcome.kind = "returned"
    /\ decl = RegMulti
    /\ Args = <<Sh(<<"p">>), <<"2">>, LgEq(s_place, <<"1">>), Sh(<<"p", "2">>)>>
    /\ field[1] = <<2, 1, 2>>

\* Some flag of the argument vector resolved to option i.
Mentioned(i) == \E k \in DOMAIN calls : calls[k].opt = i

\* C6: an option that the argument vector never mentions keeps its pre-parse
\* value (its default, when one was declared) and stays not set, whatever
\* other options are processed, up to and including the end of the parse.
C6_Untouched ==
    field # <<>> =>
        \A i \in DOMAIN decl :
            ~Mentioned(i) => field[i] = decl[i].init /\ ~set_flag[i]

\* Three other options were set and the Single with default 18 still holds it.
C6_Witness ==
    /\ Done
    /\ outcome.kind = "returned"
    /\ decl = RegMixed
    /\ ~Mentioned(2)
    /\ field[2] = 18
    /\ ~set_flag[2]
    /\ Cardinality({i \in DOMAIN decl : Supplied(i)}) >= 3

\* The call k of parse_helper set the help or the version flag.
AsksHelpOrVersion(k) ==
    /\ calls[k].opt \in {Len(decl) + 1, Len(decl) + 2}
    /\ calls[k].result = "set"

\* C7: once a token has set the help or the version flag, the parse goes to
\* no other token and not to the validation of the required options: when
\* the token is processed the parse ends with the help or version outcome
\* (exit code 0), whatever the later tokens are and whichever required
\* options are missing.  Only a later flag of the same cluster can still end
\* the parse with its own error, before the token is processed.
C7_HelpEndsParse ==
    \A k \in DOMAIN calls :
        AsksHelpOrVersion(k) =>
            /\ \A j \in DOMAIN calls : j > k => calls[j].tok = calls[k].tok
            /\ pc \notin {"loop", "required"}
            /\ Done =>
                 \/ outcome.kind \in {"help", "version"} /\ outcome.code = 0
                 \/ /\ Len(calls) > k
                    /\ outcome.kind = calls[Len(calls)].result
                    /\ outcome.kind \notin {"set", "missing_options"}

\* Help ends the parse although the next token is a stray positional and
\* three required options are missing.
C7_Witness ==
    /\ Done
    /\ outcome.kind = "help"
    /\ decl = RegRequired
    /\ Args = <<Sh(<<"h">>), <<"y">>>>
    /\ argi = 2
    /\ Len(UnsetRequired) = 3

\* C8: when "--" is the head of the remaining tokens it is consumed and
\* every later token goes verbatim, in input order, to the ignored member, or
\* nowhere when there is none; no option, no call and no outcome changes in
\* that step, and after it no token is applied: the fields, the set flags, the
\* calls and the ignored tokens stay as they are, and the parse ends by
\* returning or by the validation of the required options.
C8_Terminator ==
    /\ [][(pc = "loop" /\ argi < Len(argv) /\ argv[argi + 1] = <<"-", "-">>)
            => /\ ignored' = IF has_sink
                             THEN SubSeq(argv, argi + 2, Len(argv))
                             ELSE <<>>
               /\ argi' = Len(argv)
               /\ UNCHANGED <<field, set_flag, calls, outcome>>]_vars
    /\ [][argtype_ = ENDARG
            => /\ UNCHANGED <<field, set_flag, calls, ignored, argi>>
               /\ outcome'.kind \in {"running", "returned", "missing_options"}]_vars

\* After "--", a help flag and a second "--" are in the ignored member, help
\* is not set and the parse returned.
C8_Witness ==
    /\ Done
    /\ outcome.kind = "returned"
    /\ argtype_ = ENDARG
    /\ has_sink
    /\ decl = RegCounter
    /\ Args = <<<<"-", "-">>, Sh(<<"h">>), <<"-", "-">>>>
    /\ ignored = <<Sh(<<"h">>), <<"-", "-">>>>
    /\ field = <<0, 0, FALSE, FALSE, FALSE>>

\* The strings of the acceptance test.
NeelyKaeden == <<"N", "e", "e", "l", "y", " ", "K", "a", "e", "d", "e", "n">>
NewYork == <<"n", "e", "w", " ", "y", "o", "r", "k">>
Chicago == <<"-", "c", "h", "i", "c", "a", "g", "o">>
SanDiego == <<"-", "s", "a", "n", "-", "d", "i", "e", "g", "o">>

AcceptanceParsed(d) == Done /\ decl = d /\ Args = AcceptanceArgs

\* C9 as stated: against -n/--name, -p/--place and -t, the two last taking
\* values that start with a hyphen, the command line of the acceptance test
\* gives the name, the three places "new york", "-chicago" and
\* "-tgttttp=-san-diego", and ignores everything after the first "--".
C9_AsStated ==
    AcceptanceParsed(RegAcceptance) =>
        /\ field[1] = NeelyKaeden
        /\ field[2] = <<NewYork, Chicago, AcceptanceArgs[8]>>
        /\ ignored = SubSeq(AcceptanceArgs, 8, Len(AcceptanceArgs))

\* C9, amended: against those options the command line gives the name, the
\* places "new york", "-chicago" and "--" (the first "--" is the value of
\* the -p before it), the -t value "gttttp=-san-diego", and ignores the
\* tokens after the second "--".  Against the options of the shipped example,
\* where -t is a counter and -g a flag, it gives the same name, -t five
\* times, -g, and the places "new york", "-chicago", "--" and "-san-diego".
C9_Acceptance ==
    /\ AcceptanceParsed(RegAcceptance) =>
         /\ outcome.kind = "returned"
         /\ field[1] = NeelyKaeden
         /\ field[2] = <<NewYork, Chicago, <<"-", "-">>>>
         /\ field[3] = <<SubSeq(AcceptanceArgs[8], 3, Len(AcceptanceArgs[8]))>>
         /\ ignored = SubSeq(AcceptanceArgs, 10, Len(AcceptanceArgs))
    /\ AcceptanceParsed(RegExample) =>
         /\ outcome.kind = "returned"
         /\ field[1] = NeelyKaeden
         /\ field[2] = 18
         /\ field[3] = TRUE
         /\ field[4] = 5
         /\ field[5] = <<NewYork, Chicago, <<"-", "-">>, SanDiego>>
         /\ ignored = <<>>

\* The whole command line was parsed and the third place is "--".
C9_Witness ==
    /\ AcceptanceParsed(RegAcceptance)
    /\ outcome.kind = "returned"
    /\ Len(field[2]) = 3
    /\ field[2][3] = <<"-", "-">>
    /\ Len(ignored) = 5

\* The text of a token from offset of on, without one leading "=".
Remainder(tok, of) ==
    IF tok[of + 1] = "=" THEN SubSeq(tok, of + 2, Len(tok))
    ELSE SubSeq(tok, of + 1, Len(tok))

\* C10: in a short cluster, the first option that needs a value takes the
\* whole remainder of the token as its value and ends the scan of the
\* cluster: no later call reads a flag from that token.  With -f and -g
\* taking no value and -a taking one, -faxxxg sets f, gives a the value
\* "xxxg" and leaves g not set.
C10_ClusterValue ==
    /\ \A k \in DOMAIN calls :
         ( /\ calls[k].opt # 0
           /\ opts[calls[k].opt].opttype \in {NORMAL, VECTOR}
           /\ Len(calls[k].flag) = 2
           /\ ~calls[k].newarg
           /\ calls[k].result = "set" )
         => /\ calls[k].value = Remainder(argv[calls[k].tok], calls[k].of)
            /\ \A j \in DOMAIN calls : j > k => calls[j].tok > calls[k].tok
    /\ Done /\ decl = RegCluster
            /\ Args = <<Sh(<<"f", "a", "x", "x", "x", "g">>)>> =>
         /\ outcome.kind = "returned"
         /\ field[1] = TRUE /\ set_flag[1]
         /\ field[2] = FALSE /\ ~set_flag[2]
         /\ field[3] = <<"x", "x", "x", "g">> /\ set_flag[3]
         /\ Len(calls) = 2

\* -faxxxg was parsed: a holds "xxxg" and g was never looked up.
C10_Witness ==
    /\ Done
    /\ decl = RegCluster
    /\ Args = <<Sh(<<"f", "a", "x", "x", "x", "g">>)>>
    /\ field[3] = <<"x", "x", "x", "g">>
    /\ ~Mentioned(2)

\* The number a text of decimal digits stands for.
RECURSIVE Decimal(_)
Decimal(v) ==
    IF v = <<>> THEN 0
    ELSE 10 * Decimal(SubSeq(v, 1, Len(v) - 1)) + DecimalDigit(v[Len(v)])

AllDecimal(v) ==
    \A k \in DOMAIN v :
        v[k] \in {"0", "1", "2", "3", "4", "5", "6", "7", "8", "9"}

\* C11 as stated: for the string option of RegValue and every value text
\* that is not empty and does not start with a hyphen, each of the five
\* forms is accepted and leaves the option with that text.
C11_EveryText ==
    \A v \in ValueTexts :
        Done /\ decl = RegValue /\ v[1] # "-" /\ Args \in FiveForms(decl[1], v)
            => outcome.kind = "returned" /\ field[1] = v

\* C11, amended: for an option that needs a value and every value text that
\* is not empty, starts neither with a hyphen nor with "=" and converts to
\* the type of the option, the five forms -a xxx, -axxx, -a=xxx, --aaa xxx
\* and --aaa=xxx are all accepted, leave the option set to the converted
\* text and touch no other option.
C11_FiveForms ==
    \A i \in DOMAIN decl, v \in ValueTexts :
        ( /\ Done
          /\ decl = RegValue
          /\ v[1] \notin {"-", "="}
          /\ decl[i].conv = "u8" => AllDecimal(v)
          /\ Args \in FiveForms(decl[i], v) )
        => /\ outcome.kind = "returned"
           /\ field[i] = IF decl[i].conv = "u8" THEN Decimal(v) ELSE v
           /\ set_flag[i]
           /\ \A j \in DOMAIN decl : j # i => ~set_flag[j]
           /\ argi = Len(argv)

\* The integer option was written -i=12 and holds 12.
C11_Witness ==
    /\ Done
    /\ outcome.kind = "returned"
    /\ decl = RegValue
    /\ Args = <<Sh(<<"i", "=", "1", "2">>)>>
    /\ field[2] = 12

\* The position in d of the option with the short flag c.
ByLetter(d, c) == CHOOSE i \in DOMAIN d : d[i].shrt = c

Ended(kind, flg, fld, sf) ==
    [kind |-> kind, flag |-> flg, field |-> fld, set_flag |-> sf]

\* What the letters xs of no-value options of d give when each is a token
\* of its own, from the fields fld and the set marks sf on: a repeated Flag
\* ends in the multiple-use error, the letter of help or version ends the
\* parse, a Flag is set and a Counter is incremented.
RECURSIVE Separately(_, _, _, _)
Separately(d, xs, fld, sf) ==
    IF xs = <<>> THEN Ended("returned", <<>>, fld, sf)
    ELSE IF xs[1] = "h" THEN Ended("help", <<>>, fld, sf)
    ELSE IF xs[1] = "V" THEN Ended("version", <<>>, fld, sf)
    ELSE IF d[ByLetter(d, xs[1])].opttype = BOOLEAN_
    THEN IF sf[ByLetter(d, xs[1])]
         THEN Ended("used_mutiple", <<"-", xs[1]>>, fld, sf)
         ELSE Separately(d, Tail(xs),
                         [fld EXCEPT ![ByLetter(d, xs[1])] = TRUE],
                         [sf EXCEPT ![ByLetter(d, xs[1])] = TRUE])
    ELSE Separately(d, Tail(xs),
                    [fld EXCEPT ![ByLetter(d, xs[1])] = @ + 1], sf)

SeparatelyFrom(d, xs) ==
    Separately(d, xs, [i \in DOMAIN d |-> d[i].init],
               [i \in DOMAIN d |-> FALSE])

\* The parse ended as r says: with the same kind of outcome and, for an
\* error, the same flag, for a return, the same fields and set marks.
EndedAs(r) ==
    /\ outcome.kind = r.kind
    /\ r.kind = "used_mutiple" => outcome.flag = r.flag
    /\ r.kind = "returned" =>
         \A i \in DOMAIN decl :
             field[i] = r.field[i] /\ set_flag[i] = r.set_flag[i]

SeparateAgrees ==
    \A xs \in LetterRuns :
        Done /\ decl = RegCounter /\ Args = Separated(xs)
            => EndedAs(SeparatelyFrom(decl, xs))

\* C12 as stated: for all no-value options x, y, z, the built-in help and
\* version flags among them, the cluster -xyz ends as the tokens -x -y -z do.
C12_EveryCluster ==
    /\ SeparateAgrees
    /\ \A xs \in LetterRuns :
         Done /\ decl = RegCounter /\ Args = Clustered(xs)
             => EndedAs(SeparatelyFrom(decl, xs))

HelpOnlyLast(xs) ==
    \A k \in 1..(Len(xs) - 1) : xs[k] \notin {"h", "V"}

\* C12, amended: for no-value options x, y, z of which only the last may
\* be the built-in help or version flag, the cluster -xyz gives the same
\* outcome as the tokens -x -y -z: the same fields and set marks, the same
\* error, or the same help or version termination.
C12_ClusterAsTokens ==
    /\ SeparateAgrees
    /\ \A xs \in LetterRuns :
         Done /\ decl = RegCounter /\ Args = Clustered(xs) /\ HelpOnlyLast(xs)
             => EndedAs(SeparatelyFrom(decl, xs))

\* The cluster -cfv was parsed: both counters are 1 and the flag is set.
C12_Witness ==
    /\ Done
    /\ outcome.kind = "returned"
    /\ decl = RegCounter
    /\ Args = Clustered(<<"c", "f", "v">>)
    /\ field = <<1, 1, TRUE, FALSE, FALSE>>

\* The call k is an occurrence of a value-needing option with no value
\* attached: a long flag without "=", or the last letter of a short token.
Unattached(k) ==
    /\ calls[k].opt # 0
    /\ opts[calls[k].opt].opttype \in {NORMAL, VECTOR}
    /\ calls[k].newarg

\* No next token, or one that starts with a hyphen after an option that
\* does not allow it.
NoNextValue(k) ==
    \/ calls[k].tok = Len(argv)
    \/ /\ argv[calls[k].tok + 1] # <<>>
       /\ argv[calls[k].tok + 1][1] = "-"
       /\ ~opts[calls[k].opt].allow_hyphen

\* C13 as stated: an unattached occurrence ends in the missing-value error
\* when there is no next token or the next token starts with a hyphen that
\* the option does not allow; otherwise the next token is taken as the
\* value and handed to the conversion.
C13_AsStated ==
    \A k \in DOMAIN calls :
        Unattached(k) =>
            IF NoNextValue(k) THEN calls[k].result = "missing_value"
            ELSE /\ calls[k].result \in {"set", "invalid_value"}
                 /\ calls[k].value = argv[calls[k].tok + 1]

\* C13, amended: an unattached occurrence ends in the missing-value error
\* exactly when there is no next token or the next token starts with a
\* hyphen that the option does not allow.  Otherwise the next token is the
\* value: a repeated Single ends in the multiple-use error, any other
\* occurrence hands the next token to the conversion, and when that
\* succeeds the token is consumed, so that no later flag is read from it.
C13_MissingValue ==
    \A k \in DOMAIN calls :
        Unattached(k) =>
            IF NoNextValue(k) THEN calls[k].result = "missing_value"
            ELSE IF SecondOccurrence(k) THEN calls[k].result = "used_mutiple"
            ELSE /\ calls[k].result \in {"set", "invalid_value"}
                 /\ calls[k].value = argv[calls[k].tok + 1]
                 /\ calls[k].result = "set" =>
                      /\ argi > calls[k].tok
                      /\ \A j \in DOMAIN calls :
                           j > k => calls[j].tok > calls[k].tok + 1

\* The option that allows it took the next token -b as its value.
C13_Witness ==
    /\ Done
    /\ outcome.kind = "returned"
    /\ decl = RegValue
    /\ Args = <<Sh(<<"p">>), <<"-", "b">>>>
    /\ field[3] = <<"-", "b">>
    /\ Unattached(1)

\* The three ways to attach the value v to the option o.
AttachedForms(o, v) ==
    { <<Sh(<<o.shrt>>) \o v>>, <<Sh(<<o.shrt, "=">>) \o v>>,
      <<LgEq(o.lng, v)>> }

\* C14: whether an option allows hyphen values matters only for a value
\* taken from the next token.  A value that starts with a hyphen and is
\* attached to its flag (-a-b, -a=-b, --aaa=-b) is accepted as it is, with
\* or without allow-hyphen, and no attached value ever ends in the
\* missing-value error; the same text in the next token is accepted with
\* allow-hyphen and ends in the missing-value error without it.
C14_AttachedHyphen ==
    /\ \A k \in DOMAIN calls :
         ( /\ calls[k].opt # 0
           /\ opts[calls[k].opt].opttype \in {NORMAL, VECTOR}
           /\ ~calls[k].newarg )
         => calls[k].result # "missing_value"
    /\ \A i \in DOMAIN decl, v \in ValueTexts :
         ( /\ Done
           /\ decl = RegValue
           /\ decl[i].conv = "string"
           /\ v[1] = "-" )
         => /\ Args \in AttachedForms(decl[i], v) =>
                 outcome.kind = "returned" /\ field[i] = v /\ set_flag[i]
            /\ Args \in {<<Sh(<<decl[i].shrt>>), v>>, <<Lg(decl[i].lng), v>>} =>
                 IF decl[i].allow_hyphen
                 THEN outcome.kind = "returned" /\ field[i] = v
                 ELSE outcome.kind = "missing_value" /\ ~set_flag[i]

\* The option that does not allow hyphen values was written -a-b and holds
\* -b.
C14_Witness ==
    /\ Done
    /\ outcome.kind = "returned"
    /\ decl = RegValue
    /\ ~decl[1].allow_hyphen
    /\ Args = <<Sh(<<"a", "-", "b">>)>>
    /\ field[1] = <<"-", "b">>

\* The flags an option claims.
Keys(o) ==
    (IF o.shrt # NUL THEN {<<"-", o.shrt>>} ELSE {})
        \cup (IF o.lng # <<>> THEN {<<"-", "-">> \o o.lng} ELSE {})

ReservedKeys ==
    { <<"-", "h">>, <<"-", "-", "h", "e", "l", "p">>, <<"-", "V">>,
      <<"-", "-", "v", "e", "r", "s", "i", "o", "n">> }

\* The flags that two declared options claim, or that a declared option
\* claims although help or version has it.
ClaimedTwice(d) ==
    UNION { IF i = j THEN {} ELSE Keys(d[i]) \cap Keys(d[j]) :
            i \in DOMAIN d, j \in DOMAIN d }
        \cup UNION { Keys(d[i]) \cap ReservedKeys : i \in DOMAIN d }

\* What else meta::meta refuses: an option with no flag at all, or with a
\* short flag that is not a printable character other than the hyphen.
Printable ==
    { "a", "b", "c", "f", "g", "h", "i", "m", "n", "p", "t", "v", "x", "V",
      "=", "?" }

Malformed(d) ==
    \E i \in DOMAIN d :
        \/ d[i].shrt = NUL /\ d[i].lng = <<>>
        \/ d[i].shrt # NUL /\ d[i].shrt \notin Printable

\* C15: a registry in which two options claim one short flag or one long
\* flag, or in which an option claims -h, --help, -V or --version, ends in
\* the fatal flag-already-used error (exit code 1) for one of those flags
\* when it is built: no argument is read and nothing is parsed.  After a
\* build that succeeded, the keys of the flag table are the flags the
\* options claim and each key leads to the one option that claims it.
C15_FlagAlreadyUsed ==
    /\ ClaimedTwice(decl) # {} /\ ~Malformed(decl) =>
         /\ pc \in {"start", "done"}
         /\ calls = <<>> /\ argi = 0 /\ field = <<>> /\ ignored = <<>>
         /\ Done =>
              /\ outcome.kind = "already_used"
              /\ outcome.code = 1
              /\ outcome.flag \in ClaimedTwice(decl)
    /\ pc # "start" /\ outcome.code # 1 =>
         /\ ClaimedTwice(decl) = {}
         /\ DOMAIN sorted_by_flag = UNION {Keys(opts[i]) : i \in DOMAIN opts}
         /\ \A key \in DOMAIN sorted_by_flag :
              {i \in DOMAIN opts : key \in Keys(opts[i])}
                  = {sorted_by_flag[key]}

\* Two options claim -a: the build ended in the error that names -a, with
\* three arguments waiting.
C15_Witness ==
    /\ Done
    /\ decl = RegSameShort
    /\ Len(Args) = 3
    /\ outcome.kind = "already_used"
    /\ outcome.flag = <<"-", "a">>
    /\ calls = <<>>

NoFlags(d) == \E i \in DOMAIN d : d[i].shrt = NUL /\ d[i].lng = <<>>

ConfigurationErrors ==
    {"neither_flag", "not_printable", "short_is_hyphen", "already_used"}

\* C16: when a declared option has neither a short nor a long flag, or the
\* registry breaks another rule of the build (a short flag that is not a
\* printable character or is the hyphen, a flag claimed twice), every
\* argument vector ends in the configuration error with exit code 1:
\* whatever the vector holds (a bare word, a flag without its value, -h),
\* no argument is removed or read, no flag is looked up and no field or
\* ignored argument is stored.  Where the missing flags are the only
\* violation the error is the one about them.
C16_ConfigurationFirst ==
    NoFlags(decl) \/ Malformed(decl) \/ ClaimedTwice(decl) # {} =>
        /\ pc \in {"start", "done"}
        /\ argi = 0 /\ off = 0
        /\ calls = <<>> /\ ignored = <<>>
        /\ field = <<>> /\ set_flag = <<>>
        /\ Done =>
             /\ outcome.kind \in ConfigurationErrors
             /\ outcome.code = 1
             /\ NoFlags(decl) /\ ClaimedTwice(decl) = {} =>
                  outcome.kind = "neither_flag"

\* An option without flags, and the vector "x -a -h" that would otherwise
\* be refused at its first token: the outcome is the configuration error.
C16_Witness ==
    /\ Done
    /\ decl = RegNoFlags
    /\ Args = << <<"x">>, Sh(<<"a">>), Sh(<<"h">>) >>
    /\ outcome.kind = "neither_flag"
    /\ calls = <<>>

\* The text of a long-flag token before its first "=", <<>> when the token
\* is not a long-flag token or has no "=".
RECURSIVE UpToEquals(_)
UpToEquals(s) ==
    IF s = <<>> \/ s[1] = "=" THEN <<>> ELSE <<s[1]>> \o UpToEquals(Tail(s))

HasEquals(tok) == \E n \in DOMAIN tok : tok[n] = "="

\* The token is "--name=..." and name is the long flag of an option that
\* takes no value.
ValueForNoValue(tok) ==
    /\ Len(tok) > 2 /\ tok[1] = "-" /\ tok[2] = "-"
    /\ HasEquals(tok)
    /\ \E i \in DOMAIN opts :
         /\ opts[i].opttype \in {BOOLEAN_, COUNTER}
         /\ opts[i].lng # <<>>
         /\ UpToEquals(tok) = <<"-", "-">> \o opts[i].lng

\* C17: a flag ends in the unexpected-value error exactly when it was read
\* from a long-flag token with "=" whose name is the long flag of an option
\* that takes no value, the empty value of "--flag=" included; the option
\* is not applied by that occurrence.  A short token never ends in it: a
\* short flag that takes no value and is followed by "=" is applied, and
\* the next flag read from the same token is "-=".
C17_UnexpectedValue ==
    /\ \A k \in DOMAIN calls :
         /\ calls[k].result = "unexpected_value"
                <=> ValueForNoValue(argv[calls[k].tok])
         /\ calls[k].result = "unexpected_value" =>
                /\ k = Len(calls) /\ Done
                /\ outcome.kind = "unexpected_value"
                /\ opts[calls[k].opt].opttype = BOOLEAN_ =>
                       set_flag[calls[k].opt] = (Stores(calls[k].opt) # <<>>)
                /\ field[calls[k].opt] =
                       IF opts[calls[k].opt].opttype = COUNTER
                       THEN Len(Stores(calls[k].opt))
                       ELSE Stores(calls[k].opt) # <<>>
         /\ ( /\ IsShortToken(argv[calls[k].tok])
              /\ calls[k].opt # 0
              /\ opts[calls[k].opt].opttype \in {BOOLEAN_, COUNTER}
              /\ ~calls[k].newarg /\ calls[k].head = "="
              /\ k < Len(calls) \/ pc \notin {"helper", "check", "short"} )
            => /\ calls[k].result \in {"set", "used_mutiple"}
               /\ calls[k].result = "set" =>
                    /\ k < Len(calls)
                    /\ calls[k + 1].flag = <<"-", "=">>
                    /\ calls[k + 1].tok = calls[k].tok
    /\ Done /\ decl = RegEquals /\ Args = <<Sh(<<"f", "=", "v">>)>> =>
         /\ outcome.kind = "returned"
         /\ field[1] = TRUE /\ field[2] = 1 /\ field[3] = 1
    /\ Done /\ decl = RegEquals /\ Args = <<LgEq(s_flag, <<>>)>> =>
         /\ outcome.kind = "unexpected_value"
         /\ field[1] = FALSE /\ ~set_flag[1]

\* "-f=v" was applied flag by flag and then "--flag=" ended the parse in the
\* unexpected-value error.
C17_Witness ==
    /\ Done
    /\ decl = RegEquals
    /\ Args = <<Sh(<<"f", "=", "v">>), LgEq(s_verbose, <<"f">>)>>
    /\ outcome.kind = "unexpected_value"
    /\ Len(calls) = 4
    /\ calls[2].flag = <<"-", "=">> /\ calls[2].result = "set"

\* The flags of the registry.
Registered == UNION {Keys(opts[i]) : i \in DOMAIN opts}

\* The flag of call k is text of the token it was read from: the long flag
\* up to "=", or a hyphen and one of the letters of a short token.
FlagOfToken(k) ==
    IF IsShortToken(argv[calls[k].tok])
    THEN /\ Len(calls[k].flag) = 2 /\ calls[k].flag[1] = "-"
         /\ \E n \in 2..Len(argv[calls[k].tok]) :
                calls[k].flag[2] = argv[calls[k].tok][n]
    ELSE Len(argv[calls[k].tok]) > 2 =>
            calls[k].flag = IF HasEquals(argv[calls[k].tok])
                            THEN UpToEquals(argv[calls[k].tok])
                            ELSE argv[calls[k].tok]

\* C18: when the token at the head of the remaining input does not start
\* with a hyphen (a bare word, the empty string), the parse ends there in
\* the unexpected-argument error that names the token, and nothing is
\* stored; a token taken as the value of the flag before it is not at the
\* head.  A flag that is looked up, a long flag or a letter of a short
\* cluster, ends in the unexpected-argument error that names it exactly
\* when the registry does not have it.
C18_UnexpectedArgument ==
    /\ [][( /\ pc = "loop" /\ argi < Len(argv)
            /\ argv[argi + 1] = <<>> \/ argv[argi + 1][1] # "-" )
            => /\ pc' = "done"
               /\ outcome'.kind = "unexpected_argument"
               /\ outcome'.flag = argv[argi + 1]
               /\ outcome'.code = 2
               /\ UNCHANGED <<field, set_flag, calls, ignored, argi>>]_vars
    /\ [](\A k \in DOMAIN calls :
            /\ calls[k].result = "unexpected_argument"
                   <=> calls[k].flag \notin Registered
            /\ calls[k].result = "unexpected_argument" =>
                   /\ k = Len(calls) /\ Done
                   /\ outcome.kind = "unexpected_argument"
                   /\ outcome.flag = calls[k].flag
                   /\ outcome.code = 2
                   /\ calls[k].opt = 0
                   /\ FlagOfToken(k))

\* "-a x x": the first x is the value of -a, the second is at the head of
\* the remaining input and ends the parse.
C18_Witness ==
    /\ Done
    /\ decl = RegCluster
    /\ Args = <<Sh(<<"a">>), <<"x">>, <<"x">>>>
    /\ Len(calls) = 1 /\ calls[1].result = "set"
    /\ outcome.kind = "unexpected_argument"
    /\ outcome.flag = <<"x">>

\* What a character is worth as a digit.
Worth ==
    [c \in {"0", "1", "2", "3", "4", "5", "6", "7", "8", "9", "a", "b", "c",
            "d", "e", "f", "A", "B", "C", "D", "E", "F"} |->
        CASE c = "0" -> 0 [] c = "1" -> 1 [] c = "2" -> 2 [] c = "3" -> 3
          [] c = "4" -> 4 [] c = "5" -> 5 [] c = "6" -> 6 [] c = "7" -> 7
          [] c = "8" -> 8 [] c = "9" -> 9 [] c \in {"a", "A"} -> 10
          [] c \in {"b", "B"} -> 11 [] c \in {"c", "C"} -> 12
          [] c \in {"d", "D"} -> 13 [] c \in {"e", "E"} -> 14
          [] OTHER -> 15]

\* The text is a numeral of the base: not empty, digits of the base only.
Numeral(s, base) ==
    s # <<>> /\ \A n \in DOMAIN s : s[n] \in DOMAIN Worth /\ Worth[s[n]] < base

RECURSIVE NumeralValue(_, _)
NumeralValue(s, base) ==
    IF s = <<>> THEN 0
    ELSE NumeralValue(SubSeq(s, 1, Len(s) - 1), base) * base + Worth[s[Len(s)]]

\* The prefix rule: the base a text is read in and the part that is read.
HexText(v) == Len(v) >= 2 /\ v[1] = "0" /\ v[2] = "x"
OctalText(v) == ~HexText(v) /\ Len(v) >= 2 /\ v[1] = "0"
RuleBase(v) == IF HexText(v) THEN 16 ELSE IF OctalText(v) THEN 8 ELSE 10
RulePart(v) ==
    IF HexText(v) THEN SubSeq(v, 3, Len(v))
    ELSE IF OctalText(v) THEN SubSeq(v, 2, Len(v))
    ELSE v

\* The text converts to an 8-bit unsigned integer under the prefix rule.
RuleConverts(v) ==
    Numeral(RulePart(v), RuleBase(v))
        /\ NumeralValue(RulePart(v), RuleBase(v)) <= UINT8_MAX

\* Call k handed its value to the conversion of an integer option.
ConvertsInteger(k) ==
    /\ calls[k].opt # 0
    /\ opts[calls[k].opt].conv = "u8"
    /\ calls[k].result \in {"set", "invalid_value"}

\* The value that call k stored in its option.
StoredBy(k) ==
    IF opts[calls[k].opt].opttype = VECTOR
    THEN field[calls[k].opt][Cardinality({j \in 1..k :
                                 /\ calls[j].opt = calls[k].opt
                                 /\ calls[j].result = "set"})]
    ELSE field[calls[k].opt]

\* C19 as stated: a text handed to an integer option is read by the prefix
\* rule (base 16 after "0x", base 8 after a "0" that another character
\* follows, base 10 otherwise, so that the text "0" gives 0); it is stored
\* when the whole part is a numeral of that base that fits the type, and
\* it ends in the invalid-value error otherwise.
C19_PrefixRule ==
    \A k \in DOMAIN calls :
        ConvertsInteger(k) =>
            IF RuleConverts(calls[k].value)
            THEN /\ calls[k].result = "set"
                 /\ StoredBy(k) = NumeralValue(RulePart(calls[k].value),
                                               RuleBase(calls[k].value))
            ELSE calls[k].result = "invalid_value"

\* C19, as the code has it: the prefix rule holds for every text but the
\* one-character text "0", which takes the octal branch with nothing left
\* to read and ends in the invalid-value error.
C19_LoneZeroRefused ==
    \A k \in DOMAIN calls :
        ConvertsInteger(k) =>
            IF RuleConverts(calls[k].value) /\ calls[k].value # <<"0">>
            THEN /\ calls[k].result = "set"
                 /\ StoredBy(k) = NumeralValue(RulePart(calls[k].value),
                                               RuleBase(calls[k].value))
            ELSE /\ calls[k].result = "invalid_value"
                 /\ k = Len(calls) /\ Done
                 /\ outcome.kind = "invalid_value"
                 /\ outcome.value = calls[k].value

\* "--iii=0" ended in the invalid-value error.
C19_Witness ==
    /\ Done
    /\ decl = RegValue
    /\ Args = <<LgEq(RegValue[2].lng, <<"0">>)>>
    /\ outcome.kind = "invalid_value"
    /\ outcome.value = <<"0">>
    /\ field[2] = 0

\* The class of a token as the classification rule words it.
RuleClass(tok) ==
    IF Len(tok) < 2 \/ tok[1] # "-" THEN ARGUMENT
    ELSE IF tok = <<"-", "-">> THEN ENDARG
    ELSE IF tok[2] # "-" THEN SHORT
    ELSE LONG

\* C20 as stated: the token at the head of the remaining input is
\* classified ARGUMENT when it does not start with a hyphen or has fewer
\* than two characters (the empty token and the token "-"), ENDARG when it
\* is "--", SHORT when it starts with one hyphen and has at least two
\* characters, LONG when it starts with "--" and has more than two.
C20_Classification ==
    [][pc = "loop" /\ argi < Len(argv)
         => argtype_' = RuleClass(argv[argi + 1])]_vars

\* C20, as the code has it: the classes are those of the rule except for
\* the token "-", which is classified SHORT; its scan reads the terminator
\* as the flag character and then the byte behind the terminator.
C20_LoneHyphenShort ==
    /\ [][pc = "loop" /\ argi < Len(argv)
            => argtype_' = IF argv[argi + 1] = <<"-">> THEN SHORT
                           ELSE RuleClass(argv[argi + 1])]_vars
    /\ [][pc = "short" /\ argv[argi + 1] = <<"-">>
            => flag' = <<"-", NUL>> /\ newarg' \in BOOLEAN]_vars

\* The token "-" was classified SHORT and its scan ended in the
\* unexpected-argument error for the flag made of a hyphen and the
\* terminator.
C20_Witness ==
    /\ Done
    /\ decl = RegMixed
    /\ Args = << <<"-">> >>
    /\ argtype_ = SHORT
    /\ outcome.kind = "unexpected_argument"
    /\ outcome.flag = <<"-", NUL>>

\* Call k applied a short flag that takes no value and a hyphen follows it
\* in the same token.
HyphenFollows(k) ==
    /\ IsShortToken(argv[calls[k].tok])
    /\ calls[k].opt # 0
    /\ opts[calls[k].opt].opttype \in {BOOLEAN_, COUNTER}
    /\ calls[k].result = "set"
    /\ ~calls[k].newarg
    /\ calls[k].head = "-"

\* C21: in a short token, when a flag that takes no value is followed by a
\* hyphen, the flag is applied and the next flag looked up is "--", made of
\* the hyphen; that lookup fails, so the parse ends in the
\* unexpected-argument error for "--" and the character after the hyphen,
\* registered or not, is never looked up.  The hyphen does not end the
\* options: the token is a short token to the end and nothing goes to the
\* ignored arguments.
C21_StrayHyphen ==
    /\ \A k \in DOMAIN calls :
         HyphenFollows(k) /\ (k < Len(calls) \/ pc \notin {"check", "short", "helper"})
            => /\ Len(calls) = k + 1
               /\ calls[k + 1].flag = <<"-", "-">>
               /\ calls[k + 1].tok = calls[k].tok
               /\ calls[k + 1].result = "unexpected_argument"
               /\ Done
               /\ outcome.kind = "unexpected_argument"
               /\ outcome.flag = <<"-", "-">>
               /\ argtype_ = SHORT
               /\ ignored = <<>>
               /\ Len(Stores(calls[k].opt)) >= 1
    /\ Done /\ decl = RegCluster /\ Args # <<>>
            /\ Args[1] \in {Sh(<<"f", "-", "g">>), Sh(<<"f", "-", "z">>)} =>
         /\ outcome.kind = "unexpected_argument"
         /\ outcome.flag = <<"-", "-">>
         /\ field[1] = TRUE /\ set_flag[1]
         /\ field[2] = FALSE /\ ~set_flag[2]
         /\ Len(calls) = 2

\* "-f-g": f was applied, the lookup of "--" ended the parse, g is not set.
C21_Witness ==
    /\ Done
    /\ decl = RegCluster
    /\ Args = <<Sh(<<"f", "-", "g">>)>>
    /\ Len(calls) = 2
    /\ calls[2].flag = <<"-", "-">>
    /\ outcome.kind = "unexpected_argument"
    /\ field[1] = TRUE /\ field[2] = FALSE

\* Call k is an unattached occurrence of an option that allows a hyphen,
\* and the token after it starts with a hyphen.
HyphenTokenNext(k) ==
    /\ Unattached(k)
    /\ opts[calls[k].opt].allow_hyphen
    /\ calls[k].tok < Len(argv)
    /\ argv[calls[k].tok + 1] # <<>>
    /\ argv[calls[k].tok + 1][1] = "-"

\* C22: when an option that needs a value and allows a hyphen is given
\* without an attached value and the next token starts with a hyphen, the
\* hyphen does not stand in the way: the occurrence never ends in the
\* missing-value error, the next token is the value (a repeated Single
\* still ends in the multiple-use error), and the token is consumed.  This
\* holds for the token "--" too: it is stored as the value, it does not
\* end the options, nothing goes to the ignored arguments because of it and
\* the token after it is read as a flag.
C22_HyphenValue ==
    /\ \A k \in DOMAIN calls :
         HyphenTokenNext(k) =>
             /\ calls[k].result \in {"set", "used_mutiple"}
             /\ calls[k].result = "used_mutiple" =>
                    /\ opts[calls[k].opt].opttype = NORMAL
                    /\ Len(Stores(calls[k].opt)) = 1
             /\ calls[k].result = "set" =>
                    /\ calls[k].value = argv[calls[k].tok + 1]
                    /\ StoredBy(k) = argv[calls[k].tok + 1]
                    /\ \A j \in DOMAIN calls :
                           j > k => calls[j].tok > calls[k].tok + 1
                    /\ k < Len(calls) \/ pc \notin {"check", "helper"} =>
                           argi > calls[k].tok
                    /\ ( /\ Done
                         /\ argv[calls[k].tok + 1] = <<"-", "-">>
                         /\ calls[k].tok + 1 < Len(argv)
                         /\ outcome.kind \in {"returned", "missing_options"} )
                       => \/ \E j \in DOMAIN calls :
                                calls[j].tok = calls[k].tok + 2
                          \/ argv[calls[k].tok + 2] = <<"-", "-">>
    /\ Done /\ decl = RegValue
            /\ Args = <<Lg(RegValue[3].lng), <<"-", "-">>, Sh(<<"a", "x">>)>> =>
         /\ outcome.kind = "returned"
         /\ field[3] = <<"-", "-">>
         /\ field[1] = <<"x">>
         /\ ignored = <<>>
    /\ Done /\ decl = RegExample
            /\ Args = <<Sh(<<"p">>), <<"-", "-">>, Sh(<<"g">>)>> =>
         /\ field[5] = << <<"-", "-">> >>
         /\ field[3] = TRUE
         /\ Len(calls) = 2

\* "-p -- -ax": "--" is the value of -p and -ax was parsed after it.
C22_Witness ==
    /\ Done
    /\ decl = RegValue
    /\ Args = <<Sh(<<"p">>), <<"-", "-">>, Sh(<<"a", "x">>)>>
    /\ outcome.kind = "returned"
    /\ field[3] = <<"-", "-">>
    /\ field[1] = <<"x">>
    /\ Len(calls) = 2

s_help == <<"h", "e", "l", "p">>

\* A declared option claims a flag of help or version, no two declared
\* options claim one flag and no option is refused by itself.
ClaimsReservedOnly(d) ==
    /\ \E i \in DOMAIN d : Keys(d[i]) \cap ReservedKeys # {}
    /\ \A i \in DOMAIN d, j \in DOMAIN d :
           i # j => Keys(d[i]) \cap Keys(d[j]) = {}
    /\ ~Malformed(d)

\* C23 as stated: the registry holds help and version before every declared
\* option, and a declared option that claims -h, --help, -V or --version
\* is refused when that declared option is inserted.
C23_BuiltinsFirst ==
    /\ opts # <<>> =>
         /\ opts[1].shrt = "h" /\ opts[1].lng = s_help
         /\ opts[2].shrt = "V" /\ opts[2].lng = s_version
         /\ \A i \in DOMAIN decl : opts[i + 2] = decl[i]
    /\ Done /\ ClaimsReservedOnly(decl) =>
         /\ outcome.kind = "already_used"
         /\ \E i \in DOMAIN decl :
                /\ meta(decl).at = i
                /\ outcome.flag \in Keys(decl[i])

\* C23, amended: the registry holds the declared options in declaration
\* order and help and version after them, and the flag table leads from
\* -h and --help, -V and --version to those two last positions.  A declared
\* option that claims one of these flags is inserted without error; the
\* build is refused, with the already-used error that names the flag, when
\* help or version is inserted after it.
C23_BuiltinsLast ==
    /\ opts # <<>> =>
         /\ Len(opts) = Len(decl) + 2
         /\ \A i \in DOMAIN decl : opts[i] = decl[i]
         /\ opts[Len(decl) + 1].shrt = "h" /\ opts[Len(decl) + 1].lng = s_help
         /\ opts[Len(decl) + 2].shrt = "V"
         /\ opts[Len(decl) + 2].lng = s_version
         /\ sorted_by_flag[<<"-", "h">>] = Len(decl) + 1
         /\ sorted_by_flag[<<"-", "-">> \o s_help] = Len(decl) + 1
         /\ sorted_by_flag[<<"-", "V">>] = Len(decl) + 2
         /\ sorted_by_flag[<<"-", "-">> \o s_version] = Len(decl) + 2
    /\ Done /\ ClaimsReservedOnly(decl) =>
         /\ outcome.kind = "already_used"
         /\ outcome.code = 1
         /\ outcome.flag \in ReservedKeys
         /\ \E i \in DOMAIN decl : outcome.flag \in Keys(decl[i])
         /\ meta(decl).at \in {Len(decl) + 1, Len(decl) + 2}
         /\ meta(decl).flag = outcome.flag

\* A declared option with the short flag -h: the build was refused when
\* help, the option after it, was inserted.
C23_Witness ==
    /\ Done
    /\ decl = RegClaimsHelpShort
    /\ outcome.kind = "already_used"
    /\ outcome.flag = <<"-", "h">>
    /\ meta(decl).at = Len(decl) + 1

UserErrors ==
    {"unexpected_argument", "missing_value", "unexpected_value",
     "invalid_value", "used_mutiple"}

\* The position in argv of the token at which the parse ended in an error.
ErrorToken ==
    IF argtype_ = ARGUMENT THEN argi + 1 ELSE calls[Len(calls)].tok

\* The token at position n was dealt with by a call that stored a value:
\* a flag was read from it, or it was taken as the value of the flag
\* before it.
DealtWith(n) ==
    \/ \E k \in DOMAIN calls : calls[k].tok = n /\ calls[k].result = "set"
    \/ \E k \in DOMAIN calls :
          /\ calls[k].tok = n - 1
          /\ Unattached(k)
          /\ calls[k].result = "set"

\* C24: a parse has one terminal outcome: no step follows the step that
\* set it.  When the outcome is a user-input error, the error is that of
\* the first token that raised one: every call before the last stored its
\* value, every token before the error token was dealt with, the error
\* names the flag or the bare word read there, and nothing after the
\* error token was removed, looked up or stored.  The missing-option
\* error is the outcome only when every token was removed, no call ended
\* in an error and neither help nor version was set.
C24_OneOutcome ==
    /\ [][outcome.kind = "running" /\ outcome'.kind \in
            {"running", "returned", "help", "version", "missing_options"}
                \cup UserErrors \cup ConfigurationErrors]_vars
    /\ [](/\ Done <=> outcome.kind # "running"
          /\ \A k \in DOMAIN calls :
                k < Len(calls) =>
                    /\ calls[k].result = "set"
                    /\ calls[k].tok <= calls[k + 1].tok
          /\ Done /\ outcome.kind \in UserErrors =>
                /\ ErrorToken \in 2..Len(argv)
                /\ IF argtype_ = ARGUMENT
                   THEN /\ outcome.kind = "unexpected_argument"
                        /\ outcome.flag = argv[ErrorToken]
                        /\ \A k \in DOMAIN calls : calls[k].result = "set"
                   ELSE /\ calls[Len(calls)].result = outcome.kind
                        /\ calls[Len(calls)].flag = outcome.flag
                /\ \A n \in 2..(ErrorToken - 1) : DealtWith(n)
                /\ \A k \in DOMAIN calls : calls[k].tok <= ErrorToken
                /\ argi <= ErrorToken
                /\ ignored = <<>>
          /\ Done /\ outcome.kind = "missing_options" =>
                /\ argi = Len(argv)
                /\ \A k \in DOMAIN calls : calls[k].result = "set"
                /\ ~field[Len(decl) + 1] /\ ~field[Len(decl) + 2]
                /\ outcome.missing = UnsetRequired
                /\ UnsetRequired # <<>>)

\* "-f x -h" with a required option that is not given: the bare word ends
\* the parse; neither help nor the missing option is the outcome.
C24_Witness ==
    /\ Done
    /\ decl = RegMixed
    /\ Args = <<Sh(<<"f">>), <<"x">>, Sh(<<"h">>)>>
    /\ outcome.kind = "unexpected_argument"
    /\ outcome.flag = <<"x">>
    /\ Len(calls) = 1
    /\ argi = 2

\* The position in argv of the last token call k consumed: the token its
\* flag was read from, or the token after it when that was taken as the
\* value.
Consumed(k) ==
    IF Unattached(k) /\ calls[k].result = "set"
    THEN calls[k].tok + 1
    ELSE calls[k].tok

\* C25: the number of removed tokens only grows and is never more than the
\* length of the vector, so the count of remaining tokens is never
\* negative.  The flags are read token by token without a gap: the first
\* call reads the first token after the program name, and a call reads
\* either the token of the call before it or the token after the last one
\* that call consumed.  Whenever the main loop is at its head, the removed
\* tokens are those up to the last one consumed, so an iteration removes
\* the token it read, or that token and the separate value after it; the
\* iteration that meets "--" removes it and all that is left.  A parse
\* that completes normally has removed every token.
C25_EveryTokenOnce ==
    /\ [][argi' >= argi]_vars
    /\ [][pc = "loop" /\ argi < Len(argv) /\ argv[argi + 1] = <<"-", "-">>
            => argi' = Len(argv)]_vars
    /\ [](/\ argi <= Len(argv)
          /\ calls # <<>> => calls[1].tok = 2
          /\ \A k \in DOMAIN calls :
                k < Len(calls) =>
                    \/ calls[k + 1].tok = calls[k].tok /\ ~calls[k].newarg
                    \/ calls[k + 1].tok = Consumed(k) + 1
          /\ pc \in {"loop", "check", "required"} /\ argtype_ # ENDARG =>
                argi = IF calls = <<>> THEN 1 ELSE Consumed(Len(calls))
          /\ EndedNormally =>
                /\ argi = Len(argv)
                /\ argtype_ # ENDARG /\ calls # <<>> =>
                       Consumed(Len(calls)) = Len(argv)
                /\ \A n \in 2..Len(argv) :
                       \/ DealtWith(n)
                       \/ /\ argtype_ = ENDARG
                          /\ \E m \in 2..n :
                                /\ argv[m] = <<"-", "-">>
                                /\ \A k \in DOMAIN calls : Consumed(k) < m)

\* "-ax -m 7": a flag with an attached value and a flag with a separate
\* value; the three tokens were removed and the parse returned.
C25_Witness ==
    /\ Done
    /\ outcome.kind = "returned"
    /\ decl = RegMixed
    /\ Args = <<Sh(<<"a", "x">>), Sh(<<"m">>), <<"7">>>>
    /\ argi = Len(argv)
    /\ Len(calls) = 2
    /\ Consumed(2) = 4

\* C26: every parse reaches a terminal outcome: a returned result, help or
\* version, or one error.  Each scan step of a short cluster reads one
\* character further in its token or removes the token, and each pass of
\* the main loop that starts with tokens left ends with fewer left, so
\* neither loop goes round without progress.
C26_Terminates ==
    /\ <>(pc = "done" /\ outcome.kind # "running")
    /\ [][pc = "short"
            => \/ argi' = argi /\ off' = off + 1
               \/ argi' = argi + 1 /\ off' = 0]_vars
    /\ [][pc = "check" /\ pc' = "loop"
            => /\ argi > 1
               /\ argtype_ # ENDARG /\ calls # <<>> =>
                      argi = Consumed(Len(calls))
               /\ argtype_ = ENDARG => argi = Len(argv)]_vars
    /\ [][pc = "loop" => argi' > argi \/ pc' \in {"short", "helper", "required", "done"}]_vars
    /\ [][pc = "helper" /\ pc' = "short" => off < Len(argv[argi + 1])]_vars

\* A cluster of three letters was scanned to its end and the parse returned.
C26_Witness ==
    /\ Done
    /\ outcome.kind = "returned"
    /\ decl = RegCounter
    /\ Args = <<Sh(<<"c", "v", "c">>)>>
    /\ Len(calls) = 3
    /\ field = <<1, 2, FALSE, FALSE, FALSE>>

\* Call k is an occurrence of an option that needs a value.
NeedsValue(k) ==
    calls[k].opt # 0 /\ opts[calls[k].opt].opttype \in {NORMAL, VECTOR}

\* The text that comes with call k as its value: the token after the flag,
\* or what follows the flag in its own token, without one leading "=".
TextOf(k) ==
    IF calls[k].newarg THEN argv[calls[k].tok + 1]
    ELSE Remainder(argv[calls[k].tok], calls[k].of)

\* The option of call k is a Single that an earlier call has set.
AlreadySet(k) ==
    /\ opts[calls[k].opt].opttype = NORMAL
    /\ \E j \in 1..(k - 1) :
           calls[j].opt = calls[k].opt /\ calls[j].result = "set"

\* The text does not convert to the type of the option of call k.
DoesNotConvert(k) ==
    \/ /\ opts[calls[k].opt].conv = "u8"
       /\ ~RuleConverts(TextOf(k)) \/ TextOf(k) = <<"0">>
    \/ /\ opts[calls[k].opt].conv = "char"
       /\ Len(TextOf(k)) # 1

\* C27: an occurrence of an option that needs a value ends in the
\* missing-value error when no usable value comes with it; if one does, in
\* the multiple-use error when the option is a Single that is already
\* set; if it is not, in the invalid-value error when the text does not
\* convert; and it stores the value otherwise.  So a repeated Single with
\* no usable value ends in the missing-value error, and a repeated Single
\* with a text that does not convert ends in the multiple-use error.
C27_CheckOrder ==
    \A k \in DOMAIN calls :
        NeedsValue(k) =>
            calls[k].result =
                IF calls[k].newarg /\ NoNextValue(k) THEN "missing_value"
                ELSE IF AlreadySet(k) THEN "used_mutiple"
                ELSE IF DoesNotConvert(k) THEN "invalid_value"
                ELSE "set"

\* "--int=7 -i x": the integer is already set and x is no integer; the
\* outcome is the multiple-use error.
C27_Witness ==
    /\ Done
    /\ decl = RegMixed
    /\ Args = <<LgEq(s_int, <<"7">>), Sh(<<"i">>), <<"x">>>>
    /\ outcome.kind = "used_mutiple"
    /\ field[2] = 7
    /\ argi = 3

\* C28 as stated: in every scan step of a short token, the token "-"
\* included, the two characters the step reads, the flag character at the
\* read position and the one after it, lie in the token or are its
\* terminator; and the first character of an attached value that a call
\* reads lies in the token or is its terminator.
C28_ReadsInToken ==
    /\ [][pc = "short" => off + 1 <= Len(argv[argi + 1])]_vars
    /\ [](\A k \in DOMAIN calls :
            ~calls[k].newarg => calls[k].of <= Len(argv[calls[k].tok]))

\* C28, as the code has it: the scan of a short token of two or more
\* characters reads inside the token: the flag character is the character
\* at the read position, and the scan ends when the next one is the
\* terminator.  The scan of the token "-" reads the terminator as its flag
\* character and then the byte after the terminator, outside the token;
\* the call that follows is made with the position outside the token too.
C28_LoneHyphenOverrun ==
    /\ [][pc = "short" =>
            IF argv[argi + 1] = <<"-">>
            THEN /\ off = Len(argv[argi + 1])
                 /\ flag' = <<"-", NUL>>
                 /\ ~newarg' => off' > Len(argv[argi + 1])
            ELSE /\ off + 1 <= Len(argv[argi + 1])
                 /\ flag' = <<"-", argv[argi + 1][off + 1]>>
                 /\ newarg' = (off + 1 = Len(argv[argi + 1]))]_vars
    /\ [](\A k \in DOMAIN calls :
            ~calls[k].newarg /\ argv[calls[k].tok] # <<"-">> =>
                calls[k].of < Len(argv[calls[k].tok]))

\* The scan of "-" found a byte that is no terminator behind the token and
\* called the lookup with the read position outside the token.
C28_Witness ==
    /\ Done
    /\ decl = RegMixed
    /\ Args # <<>> /\ Args[1] = <<"-">>
    /\ Len(calls) = 1
    /\ ~calls[1].newarg
    /\ calls[1].of > Len(argv[calls[1].tok])
    /\ outcome.kind = "unexpected_argument"

\* Call k set help or version from a letter that is not the last of its
\* token.
HelpInsideCluster(k) ==
    /\ calls[k].opt \in {Len(decl) + 1, Len(decl) + 2}
    /\ calls[k].result = "set"
    /\ ~calls[k].newarg

\* C29: help and version are looked at when a token has been processed to
\* its end, not after each letter of a cluster.  The outcome becomes help
\* or version only in the check after a token, with every call so far
\* having stored its value and the token of the last call removed.  After
\* a letter that set help or version inside a cluster, the next letter of
\* the token is looked up, and if a call of that token ends in an error
\* (an unregistered letter, a second help letter, an option that needs a
\* value and has none), that error is the outcome.  When both help and
\* version are set at the check, help is the outcome.
C29_CheckAfterToken ==
    /\ [][outcome'.kind \in {"help", "version"} =>
            /\ pc = "check"
            /\ \A k \in DOMAIN calls : calls[k].result = "set"
            /\ calls # <<>> /\ argi = Consumed(Len(calls))
            /\ outcome'.kind = IF field[Len(decl) + 1] THEN "help"
                               ELSE "version"
            /\ outcome'.code = 0]_vars
    /\ [](\A k \in DOMAIN calls :
            HelpInsideCluster(k) /\ (k < Len(calls) \/ pc \notin {"short", "helper"})
               => /\ k < Len(calls)
                  /\ calls[k + 1].tok = calls[k].tok
                  /\ calls[k + 1].flag = <<"-", argv[calls[k].tok][calls[k].of + 1]>>
                  /\ Done /\ calls[Len(calls)].result # "set" =>
                         outcome.kind = calls[Len(calls)].result)
    /\ [](Done /\ decl = RegCluster /\ Args # <<>> =>
            /\ Args[1] = Sh(<<"h", "z">>) =>
                   outcome.kind = "unexpected_argument"
                       /\ outcome.flag = Sh(<<"z">>)
            /\ Args[1] = Sh(<<"h", "h">>) => outcome.kind = "used_mutiple"
            /\ Args[1] = Sh(<<"h", "a">>) /\ Len(Args) = 1 =>
                   outcome.kind = "missing_value"
            /\ Args[1] \in {Sh(<<"h", "V">>), Sh(<<"V", "h">>)} =>
                   /\ outcome.kind = "help"
                   /\ field[Len(decl) + 1] /\ field[Len(decl) + 2])

\* "-hz": help was set by the first letter and the second letter ended the
\* parse in the unexpected-argument error.
C29_Witness ==
    /\ Done
    /\ decl = RegCluster
    /\ Args = <<Sh(<<"h", "z">>)>>
    /\ field[Len(decl) + 1]
    /\ Len(calls) = 2
    /\ outcome.kind = "unexpected_argument"

\* What follows the flag of call k in its token, the "=" included.
Attached(k) ==
    SubSeq(argv[calls[k].tok], calls[k].of + 1, Len(argv[calls[k].tok]))

\* Call k is an occurrence of an option that needs a value, with "=" and
\* maybe more attached to its flag.
EqualsAttached(k) ==
    /\ NeedsValue(k)
    /\ ~calls[k].newarg
    /\ Attached(k) # <<>>
    /\ Attached(k)[1] = "="

\* C30: an option that needs a value and is given "=" with nothing behind
\* it, after its long flag or after its short flag, never ends in the
\* missing-value error: unless the option is a Single that is already
\* set, the empty text goes to the conversion, which stores it in a
\* string option and ends in the invalid-value error for an integer or a
\* character option.  Only the token of the flag is removed, so the token
\* after it is read as a flag.  Of several "=" only the first is dropped:
\* the value is all that follows it ("-n==x" gives "=x").
C30_EmptyAttached ==
    /\ \A k \in DOMAIN calls :
         EqualsAttached(k) =>
             /\ calls[k].result # "missing_value"
             /\ calls[k].result =
                    IF AlreadySet(k) THEN "used_mutiple"
                    ELSE IF opts[calls[k].opt].conv = "string" THEN "set"
                    ELSE IF opts[calls[k].opt].conv = "char"
                    THEN IF Len(Attached(k)) = 2 THEN "set"
                         ELSE "invalid_value"
                    ELSE IF Attached(k) = <<"=">> THEN "invalid_value"
                    ELSE calls[k].result
             /\ calls[k].result \in {"set", "invalid_value"} =>
                    calls[k].value = Tail(Attached(k))
             /\ calls[k].result = "set" =>
                    /\ StoredBy(k) =
                           IF opts[calls[k].opt].conv = "char"
                           THEN Attached(k)[2]
                           ELSE IF opts[calls[k].opt].conv = "string"
                           THEN Tail(Attached(k))
                           ELSE StoredBy(k)
                    /\ k < Len(calls) => calls[k + 1].tok = calls[k].tok + 1
                    /\ ( /\ k = Len(calls)
                         /\ pc \in {"check", "loop"}
                         /\ argtype_ # ENDARG )
                       => argi = calls[k].tok
             /\ calls[k].result = "invalid_value" =>
                    /\ Done /\ outcome.kind = "invalid_value"
                    /\ outcome.value = Tail(Attached(k))
                    /\ field[calls[k].opt] = opts[calls[k].opt].init
    /\ Done /\ decl = RegEmpty /\ Args = <<Sh(<<"n", "=", "=", "x">>)>> =>
         outcome.kind = "returned" /\ field[1] = <<"=", "x">>
    /\ Done /\ decl = RegEmpty /\ Args = <<LgEq(s_name, <<>>), <<"x">>>> =>
         /\ outcome.kind = "unexpected_argument"
         /\ outcome.flag = <<"x">>
         /\ field[1] = <<>> /\ set_flag[1]

\* "--name= -m=": both options hold the empty string; the second token was
\* read as a flag.
C30_Witness ==
    /\ Done
    /\ decl = RegEmpty
    /\ Args = <<LgEq(s_name, <<>>), LgEq(s_multi, <<>>)>>
    /\ outcome.kind = "returned"
    /\ field[1] = <<>>
    /\ field[4] = << <<>> >>
    /\ Len(calls) = 2

====
